---- MODULE Spec2Model ----
(***************************************************************************)
(* Content ingestion pipeline of the climate-economy-ecosystem repository. *)
(*                                                                         *)
(*   UnifiedURLIngester  src/scripts/unified_url_ingestion.py  (crawl)     *)
(*   ClimateDataIngester src/tools/data_ingestion.py           (batch)     *)
(*   RateLimiter         both files, identical code                        *)
(*                                                                         *)
(* One asyncio task drives an ingester, so its position is the single      *)
(* variable pc; every await of the source is the boundary of an action.    *)
(***************************************************************************)
EXTENDS Integers, Sequences, FiniteSets, TLC

(***************************************************************************)
(* Bounds of the model.                                                    *)
(***************************************************************************)
\* Number of ingestion runs (fresh ingester objects over one persistent table).
MaxRuns == 2

\* Chunks per page in the ingestion model (the chunker has its own model).
MaxPageChunks == 2

\* Callers of wait() on one RateLimiter, and how far the clock runs.
NumCallers == 3
MaxTicks == 6

\* min_interval = 1 / calls_per_second, in clock ticks.
MinInterval == 2

\* The chunker is checked on a scaled instance of its parameters (the source
\* has chunk_size 1000, chunk_overlap 200, MAX_CONTENT_SIZE 200000 / 500000 and
\* MAX_CHUNKS 20 / 50): texts of up to MaxTextLen characters. The overlap stays
\* longer than a run of blanks of the cleaned-up text, as 200 is.
MaxTextLen == 6
ChunkSize == 3
ChunkOverlap == 2
MaxContentSize == 5
MaxChunks == 2

\* Length of the lists the external text splitter may return.
MaxLibChunks == 3

\* The characters of a text: a letter, a sentence end, a blank and a newline.
Alphabet == {"a", ".", " ", "\n"}

\* The URL universe: three pages on one host and one page on another.
Urls == {"a/1", "a/2", "a/3", "b/1"}

\* Seed lists handed to process_url_list (one of them lists a URL twice).
SeedLists == {<<"a/1", "a/1">>, <<"a/2", "a/1">>}

\* Resource lists of a catalog entry handed to process_company.
ResourceLists == {<<>>, <<"a/1", "a/1">>, <<"a/2", "a/1">>}

\* The local PDF reports of CLIMATE_REPORT_RESOURCES, and the lists of those
\* found on disk that process_all_reports goes through.
Reports == {"r/1", "r/2"}
ReportLists == {<<>>, <<"r/1">>, <<"r/1", "r/2">>}

\* The catalog of a run: a first entry with any of the resource lists and a
\* second entry with one resource, which the first entry may list as well.
Catalog(resources) ==
    <<[name |-> "ACT", resources |-> resources],
      [name |-> "MassCEC", resources |-> <<"a/2">>]>>

\* A chunk is represented by len(content.strip()). The chunk lists a page can
\* yield straddle the minimum content length on both sides.
PageChunkLists == {<<49>>, <<0, 50>>, <<50, 1000>>}

\* The same for the batch ingester, whose pages hold at least 100 characters.
BatchChunkLists == {<<40, 49>>, <<1000, 49>>, <<50, 1000>>}

\* The child elements of an element handed to extract_structured_content, and
\* the children of a container among them.
MaxChildren == 2
MaxNested == 1

\* Tasks that run concurrently on one ingester object.
NumTasks == 2

Tasks == 1..NumTasks

\* The URL lists concurrent process_url_list tasks are given: they overlap.
TaskLists == {<<"a/1", "a/2">>, <<"a/2", "a/1">>, <<"a/1", "a/1">>}

\* The href sets a fetched page can carry.
HrefSets == {{}, {"a/1", "a/2", "b/1"}, {"a/2", "a/3"}}

(***************************************************************************)
(* Program constants.                                                      *)
(***************************************************************************)
\* "if tier < 3" in process_webpage and process_url_list.
MAX_TIER == 3

\* "len(content.strip()) < 50" in store_memory and store_document.
MIN_CONTENT_LEN == 50

\* "@retry(stop=stop_after_attempt(3), ...)" on store_document and get_embedding
\* of ClimateDataIngester.
STOP_AFTER_ATTEMPT == 3

ChunkIdx == 0..(MaxPageChunks - 1)
\* A Source is a web page (its URL) or a report (its file path); a stored
\* row is identified by its Source and its chunk index.
Sources == Urls \cup Reports
Keys == Sources \X ChunkIdx

\* urlparse(url).netloc
netloc(u) == IF u \in {"a/1", "a/2", "a/3"} THEN "a" ELSE "b"

VARIABLES
    ingester,          \* the script that runs: "unified" or "climate"
    environ,           \* os.environ: which connection parameters are set
    climate_memories,  \* the Supabase table: number of rows per (url, chunk_index)
    run,               \* number of ingester objects constructed so far
    pc,                \* position of the ingestion task
    processed_urls,    \* self.processed_urls
    page,              \* locals of the process_webpage call in progress
    call,              \* the store_memory / store_document call in progress
    fetchCount,        \* history: page fetches per URL in the current run
    storeCalls,        \* history: store calls per identity key in the current run
    outcome,           \* history: what process_webpage returned per URL, current run
    snapshot,          \* history: the table as it was when the current batch run began
    success_count,     \* UnifiedURLIngester.success_count
    failed_count,      \* UnifiedURLIngester.failed_count
    stack,             \* activation records of process_url_list, innermost last
    fetchTiers,        \* history: tiers at which a page was fetched or a row posted
    company,           \* locals of the process_company call in progress
    should_exit,       \* ClimateDataIngester.should_exit
    indexed,           \* the in-memory company index status
    checkpoint,        \* the company index status as last saved to disk
    now,               \* RateLimiter model: the clock, time.time()
    last_call_time,    \* RateLimiter.last_call_time
    lock,              \* RateLimiter.lock: the caller holding it, 0 when free
    waiters,           \* RateLimiter.lock: callers suspended in acquire, FIFO
    rpc,               \* position of each caller of RateLimiter.wait
    wake,              \* when each sleeping caller's asyncio.sleep is due
    releases,          \* history: the times at which wait() returned, in order
    chunker,           \* chunker model: the class whose smart_chunker is applied
    text,              \* chunker model: the argument of smart_chunker
    split_input,       \* chunker model: the text handed to text_splitter.split_text
    lib_chunks,        \* chunker model: what text_splitter.split_text returned
    out_chunks,        \* chunker model: the list smart_chunker returned
    cpc,               \* chunker model: "ready" before the call, "done" after
    tasks,             \* concurrency model: the locals of each task on one ingester
    element,           \* extractor model: the children of the element handed in
    extracted,         \* extractor model: what extract_structured_content returned
    epc                \* extractor model: "ready" before the call, "done" after

ingestVars == <<ingester, environ, climate_memories, run, pc, processed_urls, page, call,
                fetchCount, storeCalls, outcome, snapshot>>
crawlVars == <<success_count, failed_count, stack, fetchTiers>>
batchVars == <<company, should_exit, indexed, checkpoint>>

ingestVarsButPc == <<ingester, environ, climate_memories, run, processed_urls, page, call,
                     fetchCount, storeCalls, outcome, snapshot>>

rateVars == <<now, last_call_time, lock, waiters, rpc, wake, releases>>

chunkVars == <<chunker, text, split_input, lib_chunks, out_chunks, cpc>>

taskVars == <<tasks>>

extractVars == <<element, extracted, epc>>

vars == <<ingestVars, crawlVars, batchVars, rateVars, chunkVars, taskVars,
          extractVars>>

NoPage == [url |-> "", tier |-> 0, hrefs |-> {}, additional_urls |-> {},
           chunks |-> <<>>, i |-> 0, success_count |-> 0, stored |-> <<>>]

\* A store call that has not started: nothing requested yet. trace lists, in
\* the order of the code, the completed RateLimiter waits ("wait") and the
\* external requests ("probe", "embedding", "insert") of the call.
NoCall == [key |-> <<"", 0>>, len |-> 0, probes |-> 0, probe |-> "none",
           probeKey |-> <<"", 0>>, reported |-> "none", embeds |-> 0,
           embedding |-> FALSE, inserts |-> 0, before |-> 0, sc |-> 0,
           result |-> "none", trace |-> <<>>, answer |-> "none",
           metadata |-> [chunk_index |-> 0, total_chunks |-> 0]]

\* The locals of process_all_companies and of the process_company call in
\* progress: catalog is the list companies, next the position of the loop in
\* it, force the flag process_all_companies was called with; name, resources
\* and the counts belong to the entry at hand, was_indexed tells whether that
\* entry was flagged when the loop reached it; reports is what the loop of
\* process_all_reports has still to go through.
NoCompany == [catalog |-> <<>>, next |-> 1, name |-> "", resources |-> <<>>,
              success_count |-> 0, total_count |-> 0, force |-> FALSE,
              was_indexed |-> FALSE, reports |-> <<>>]

\* An activation of process_url_list: urls is what the loop has still to
\* visit, called_with keeps the argument the activation was called with.
Frame(urls, tier) ==
    [urls |-> urls, tier |-> tier, success_count |-> 0, additional_urls |-> {},
     called_with |-> urls]

Top == stack[Len(stack)]
SetTop(f) == [stack EXCEPT ![Len(stack)] = f]

Callers == 1..NumCallers

\* RateLimiter.__init__: last_call_time = 0 and a free lock. The clock starts a
\* full interval after 0, as time.time() does for any real interval.
RateLimiterInit ==
    /\ now = MinInterval
    /\ last_call_time = 0
    /\ lock = 0
    /\ waiters = <<>>
    /\ rpc = [c \in Callers |-> "idle"]
    /\ wake = [c \in Callers |-> 0]
    /\ releases = <<>>

\* No call of smart_chunker under way.
ChunkerIdle ==
    /\ chunker = "none"
    /\ text = <<>>
    /\ split_input = <<>>
    /\ lib_chunks = <<>>
    /\ out_chunks = <<>>
    /\ cpc = "off"

\* The environments a script is started in: one of the three connection
\* parameters is not set.
Environments ==
    {e \in [{"SUPABASE_URL", "SUPABASE_SERVICE_KEY", "SUPABASE_ANON_KEY"} -> BOOLEAN] :
        Cardinality({v \in DOMAIN e : ~e[v]}) = 1}

\* The connection parameters each script reads with os.getenv:
\* unified_url_ingestion.py SUPABASE_URL and SUPABASE_SERVICE_KEY,
\* data_ingestion.py SUPABASE_URL and SUPABASE_ANON_KEY.
Required(script) ==
    IF script = "unified" THEN {"SUPABASE_URL", "SUPABASE_SERVICE_KEY"}
                          ELSE {"SUPABASE_URL", "SUPABASE_ANON_KEY"}

\* Variant of Configured: the module-level test is lost.
ConfiguredAlways(script, env) == TRUE

\* The module-level test of each script, "if not SUPABASE_URL or not
\* SUPABASE_KEY" and "if not supabase_url or not supabase_key", negated.
Configured(script, env) == \A v \in Required(script) : env[v]

\* No ingester constructed yet; the table is empty.
InitIngest ==
    /\ ingester \in {"unified", "climate"}
    /\ environ \in Environments
    /\ climate_memories = [k \in Keys |-> 0]
    /\ run = 0
    /\ pc = "idle"
    /\ processed_urls = {}
    /\ page = NoPage
    /\ call = NoCall
    /\ fetchCount = [u \in Sources |-> 0]
    /\ storeCalls = [k \in Keys |-> 0]
    /\ outcome = [u \in Sources |-> "none"]
    /\ snapshot = [k \in Keys |-> 0]
    /\ success_count = 0
    /\ failed_count = 0
    /\ stack = <<>>
    /\ fetchTiers = {}
    /\ company = NoCompany
    /\ should_exit = FALSE
    /\ indexed = {}
    /\ checkpoint = {}
    /\ RateLimiterInit
    /\ ChunkerIdle
    /\ tasks = <<>>
    /\ element = <<>>
    /\ extracted = <<>>
    /\ epc = "off"

\* The script is loaded: when a parameter it needs is not set, and in
\* data_ingestion.py also when create_client raises, the module logs the error
\* and calls sys.exit(1) before main is reached.
StartupExit ==
    /\ pc = "idle"
    /\ run = 0
    /\ \/ ~Configured(ingester, environ)
       \/ ingester = "climate"
    /\ pc' = "exited"
    /\ UNCHANGED <<ingestVarsButPc, crawlVars, batchVars, rateVars, chunkVars, taskVars, extractVars>>

\* What constructing a new ingester object resets, whichever the class.
NewIngester ==
    /\ run' = run + 1
    /\ processed_urls' = {}
    /\ page' = NoPage
    /\ call' = NoCall
    /\ fetchCount' = [u \in Sources |-> 0]
    /\ storeCalls' = [k \in Keys |-> 0]
    /\ outcome' = [u \in Sources |-> "none"]
    /\ UNCHANGED <<ingester, environ, climate_memories>>

\* "not content or len(content.strip()) < 50"
TooShort(len) == len < MIN_CONTENT_LEN

\* Variant of LimitChunks: the slice keeps one chunk too many.
LimitChunksOffByOne(cs, max_chunks) ==
    IF Len(cs) > max_chunks THEN SubSeq(cs, 1, max_chunks + 1) ELSE cs

\* "if len(chunks) > MAX_CHUNKS: chunks = chunks[:MAX_CHUNKS]"
LimitChunks(cs, max_chunks) ==
    IF Len(cs) > max_chunks THEN SubSeq(cs, 1, max_chunks) ELSE cs

\* What the chunker has in hand before "chunks = chunks[:MAX_CHUNKS]": one of
\* the given lists, or a full one of them followed by a further chunk.
UncappedLists(lists) ==
    lists \cup {l \o <<MIN_CONTENT_LEN>> : l \in {m \in lists : Len(m) = MaxPageChunks}}

\* "chunks = self.smart_chunker(content)": the lists the chunk loop can get,
\* MaxPageChunks standing for MAX_CHUNKS.
ChunkerResults(lists) ==
    {LimitChunks(raw, MaxPageChunks) : raw \in UncappedLists(lists)}

\* Variant of Metadata: the chunks are numbered from one.
MetadataOneBased(i, chunks) == [chunk_index |-> i + 1, total_chunks |-> Len(chunks)]

\* The chunk fields of the metadata built in the body of the chunk loop:
\* "'chunk_index': i, 'total_chunks': len(chunks)" under
\* "for i, chunk in enumerate(chunks)".
Metadata(i, chunks) == [chunk_index |-> i, total_chunks |-> Len(chunks)]

\* Variant of ChunkStored: the chunk loop is left at the first failed call.
ChunkStoredBreakOnFailure(result) ==
    [page EXCEPT !.i = IF result THEN @ + 1 ELSE Len(page.chunks),
                 !.success_count = IF result THEN @ + 1 ELSE @,
                 !.stored = Append(@, Metadata(page.i, page.chunks))]

\* Return of a store call to the chunk loop of process_webpage:
\* "if await self.store_memory(chunk, metadata): success_count += 1". stored
\* keeps the metadata of the calls made so far.
ChunkStored(result) ==
    [page EXCEPT !.i = @ + 1,
                 !.success_count = IF result THEN @ + 1 ELSE @,
                 !.stored = Append(@, Metadata(page.i, page.chunks))]

\* Variant of SourceSucceeded: a source counts as a success whatever was stored.
SourceSucceededAlways(count) == TRUE

\* Variant of SourceSucceeded: every chunk has to be stored.
SourceSucceededIfAll(count) == count = Len(page.chunks)

\* "success = success_count > 0" of process_webpage, "return success_count > 0"
\* of ClimateDataIngester.process_webpage and of process_pdf_report.
SourceSucceeded(count) == count > 0

\* The locals of a store call for the chunk the loop is at, once the
\* "await self.supabase_rate_limiter.wait()" that opens it has completed.
BeginCall ==
    [NoCall EXCEPT !.key = <<page.url, page.i>>,
                   !.len = page.chunks[page.i + 1],
                   !.metadata = Metadata(page.i, page.chunks),
                   !.before = climate_memories[<<page.url, page.i>>],
                   !.sc = page.success_count,
                   !.trace = <<"wait">>]

\* The rows of the table after an insert request with the given outcome: a
\* created row is added; a rejected request and one that never arrived add
\* nothing; a reply lost after the server committed ("timeout") adds the row
\* although the client sees an exception.
Inserted(outcome_, rows) ==
    IF outcome_ \in {"created", "timeout"} THEN rows + 1 ELSE rows

(***************************************************************************)
(* UnifiedURLIngester                                                      *)
(***************************************************************************)
\* The tiers a run may start at: any tier up to the maximum for the first run;
\* a later run re-crawls its seed pages only (it starts at the maximum tier).
SeedTiers == IF run = 0 THEN 1..MAX_TIER ELSE {MAX_TIER}

\* __init__ followed by main's process_url_list(urls, tier).
StartCrawl ==
    /\ ingester = "unified"
    /\ Configured(ingester, environ)
    /\ pc = "idle"
    /\ run < MaxRuns
    /\ NewIngester
    /\ \E seeds \in SeedLists, tier \in SeedTiers :
          stack' = <<Frame(seeds, tier)>>
    /\ success_count' = 0
    /\ failed_count' = 0
    /\ fetchTiers' = {}
    /\ pc' = "list"
    /\ UNCHANGED <<snapshot, batchVars>>
    /\ UNCHANGED <<rateVars, chunkVars, taskVars, extractVars>>

\* Variant of Visited: the membership test is lost and no URL counts as visited.
VisitedNever(u) == FALSE

\* "if url in self.processed_urls"
Visited(u) == u \in processed_urls

\* Variant of BelowMaxTier: the tier test is lost.
BelowMaxTierAlways(tier) == TRUE

\* "if tier < 3", in process_webpage (links) and process_url_list (recursion).
BelowMaxTier(tier) == tier < MAX_TIER

\* Variant of Remaining: the loop does not move on to the next URL.
RemainingSame(urls) == urls

\* "for url in urls": what is left of the list once its first URL is taken.
Remaining(urls) == Tail(urls)

\* One iteration of "for url in urls" up to the call of process_webpage.
ProcessUrlListNext ==
    /\ pc = "list"
    /\ Top.urls # <<>>
    /\ LET url == Head(Top.urls)
           rest == [Top EXCEPT !.urls = Remaining(@)]
       IN  IF Visited(url)
           THEN /\ stack' = SetTop(rest)
                /\ UNCHANGED <<pc, processed_urls, page>>
           ELSE /\ processed_urls' = processed_urls \cup {url}
                /\ stack' = SetTop(rest)
                /\ page' = [NoPage EXCEPT !.url = url, !.tier = Top.tier]
                /\ pc' = "fetch"
    /\ UNCHANGED <<ingester, environ, climate_memories, run, call, fetchCount, storeCalls,
                   outcome, snapshot, success_count, failed_count, fetchTiers>>
    /\ UNCHANGED batchVars
    /\ UNCHANGED <<rateVars, chunkVars, taskVars, extractVars>>

\* Variant of CollectLinks: the host comparison is lost.
CollectLinksAnyHost(url, tier, hrefs) ==
    IF BelowMaxTier(tier) THEN hrefs ELSE {}

\* The links process_webpage keeps: "if tier < 3" and same netloc as the page.
CollectLinks(url, tier, hrefs) ==
    IF BelowMaxTier(tier) THEN {h \in hrefs : netloc(h) = netloc(url)} ELSE {}

\* Variant of AfterPageFailure: the exception leaves process_url_list.
AfterPageFailureAbort == "return"

\* Where control goes when process_webpage has failed: its handler returns
\* (False, []) to the loop of process_url_list, which goes on with the list.
AfterPageFailure == "list"

\* process_webpage up to the chunk loop: the GET, the extraction, the links and
\* the chunker. Any exception is caught: failed_count += 1, return (False, []).
ProcessWebpageFetch ==
    /\ pc = "fetch"
    /\ fetchCount' = [fetchCount EXCEPT ![page.url] = @ + 1]
    /\ fetchTiers' = fetchTiers \cup {page.tier}
    /\ \/ /\ failed_count' = failed_count + 1
          /\ outcome' = [outcome EXCEPT ![page.url] = "failed"]
          /\ page' = NoPage
          /\ pc' = AfterPageFailure
       \/ /\ \E hrefs \in HrefSets, chunks \in ChunkerResults(PageChunkLists) :
                page' = [page EXCEPT
                            !.hrefs = hrefs,
                            !.additional_urls = CollectLinks(page.url, page.tier, hrefs),
                            !.chunks = chunks, !.i = 0, !.success_count = 0]
          /\ pc' = "store"
          /\ UNCHANGED <<failed_count, outcome>>
    /\ UNCHANGED <<ingester, environ, climate_memories, run, processed_urls, call,
                   storeCalls, snapshot, success_count, stack>>
    /\ UNCHANGED batchVars
    /\ UNCHANGED <<rateVars, chunkVars, taskVars, extractVars>>

\* Variant of AfterValidation: the length validation is lost.
AfterValidationUnchecked(len) == "probe"

\* Variant of AfterValidation: the insert path is entered without the probe.
AfterValidationNoProbe(len) == IF TooShort(len) THEN "return_false" ELSE "embed"

\* store_memory after its rate-limiter wait: the length validation decides
\* between "return False" and the existence probe.
AfterValidation(len) == IF TooShort(len) THEN "return_false" ELSE "probe"

\* store_memory, first part: the wait and the validation.
StoreMemoryBegin ==
    /\ pc = "store"
    /\ page.i < Len(page.chunks)
    /\ storeCalls' = [storeCalls EXCEPT ![BeginCall.key] = @ + 1]
    /\ IF AfterValidation(BeginCall.len) = "return_false"
       THEN /\ call' = [BeginCall EXCEPT !.result = "false"]
            /\ page' = ChunkStored(FALSE)
            /\ pc' = "store"
       ELSE /\ call' = BeginCall
            /\ pc' = AfterValidation(BeginCall.len)
            /\ UNCHANGED page
    /\ UNCHANGED <<ingester, environ, climate_memories, run, processed_urls, fetchCount,
                   outcome, snapshot>>
    /\ UNCHANGED <<crawlVars, batchVars>>
    /\ UNCHANGED <<rateVars, chunkVars, taskVars, extractVars>>

\* Variant of ProbeResult: a failed probe is answered with "exists".
ProbeResultFailClosed(outcome_, rows) ==
    IF outcome_ # "ok" \/ rows > 0 THEN "present" ELSE "absent"

\* memory_exists: "response.status_code == 200 and len(response.json()) > 0";
\* any exception is caught and answered with False.
ProbeResult(outcome_, rows) ==
    IF outcome_ = "ok" /\ rows > 0 THEN "present" ELSE "absent"

\* Variant of AfterProbe: the early return is lost and the row is posted anyway.
AfterProbeAlwaysInsert(reported) == "embed"

\* "if await self.memory_exists(...): return True", else on to the embedding.
AfterProbe(reported) == IF reported = "present" THEN "return_true" ELSE "embed"

\* store_memory, second part: the existence probe, behind its own wait.
MemoryExists ==
    /\ pc = "probe"
    /\ \E outcome_ \in {"ok", "non200", "exception"} :
          LET r == ProbeResult(outcome_, climate_memories[call.key])
              c == [call EXCEPT !.probes = @ + 1, !.probe = outcome_,
                                !.probeKey = call.key, !.reported = r,
                                !.trace = @ \o <<"wait", "probe">>]
          IN  IF AfterProbe(r) = "return_true"
              THEN /\ call' = [c EXCEPT !.result = "true"]
                   /\ page' = ChunkStored(TRUE)
                   /\ pc' = "store"
              ELSE /\ call' = c
                   /\ pc' = AfterProbe(r)
                   /\ UNCHANGED page
    /\ UNCHANGED <<ingester, environ, climate_memories, run, processed_urls, fetchCount,
                   storeCalls, outcome, snapshot>>
    /\ UNCHANGED <<crawlVars, batchVars>>
    /\ UNCHANGED <<rateVars, chunkVars, taskVars, extractVars>>

\* get_embedding: a vector, or None when the OpenAI call raises; store_memory
\* goes on to the insert in both cases.
GetEmbedding ==
    /\ pc = "embed"
    /\ \E ok \in BOOLEAN :
          call' = [call EXCEPT !.embeds = @ + 1, !.embedding = ok,
                               !.trace = Append(@, "embedding")]
    /\ pc' = "insert"
    /\ UNCHANGED <<ingester, environ, climate_memories, run, processed_urls, page,
                   fetchCount, storeCalls, outcome, snapshot>>
    /\ UNCHANGED <<crawlVars, batchVars>>
    /\ UNCHANGED <<rateVars, chunkVars, taskVars, extractVars>>

\* store_memory, last part: the POST; "success = response.status_code == 201",
\* an exception returns False.
StoreMemoryInsert ==
    /\ pc = "insert"
    /\ \E outcome_ \in {"created", "rejected", "error", "timeout"} :
          /\ climate_memories' = [climate_memories EXCEPT
                                     ![call.key] = Inserted(outcome_, @)]
          /\ call' = [call EXCEPT !.inserts = @ + 1,
                         !.result = IF outcome_ = "created" THEN "true" ELSE "false",
                         !.trace = Append(@, "insert")]
          /\ page' = ChunkStored(outcome_ = "created")
    /\ fetchTiers' = fetchTiers \cup {page.tier}
    /\ pc' = "store"
    /\ UNCHANGED <<ingester, environ, run, processed_urls, fetchCount, storeCalls, outcome,
                   snapshot, success_count, failed_count, stack>>
    /\ UNCHANGED batchVars
    /\ UNCHANGED <<rateVars, chunkVars, taskVars, extractVars>>

\* End of process_webpage and return into process_url_list:
\* "success = success_count > 0", the counters, "additional_urls.update".
ProcessWebpageDone ==
    /\ pc = "store"
    /\ page.i = Len(page.chunks)
    /\ LET success == SourceSucceeded(page.success_count)
       IN  /\ success_count' = IF success THEN success_count + 1 ELSE success_count
           /\ failed_count' = IF success THEN failed_count ELSE failed_count + 1
           /\ outcome' = [outcome EXCEPT
                             ![page.url] = IF success THEN "success" ELSE "failed"]
           /\ stack' = IF success
                       THEN SetTop([Top EXCEPT
                               !.success_count = @ + 1,
                               !.additional_urls = @ \cup page.additional_urls])
                       ELSE stack
    /\ page' = NoPage
    /\ call' = NoCall
    /\ pc' = IF SourceSucceeded(page.success_count)
             THEN "list" ELSE AfterPageFailure
    /\ UNCHANGED <<ingester, environ, climate_memories, run, processed_urls, fetchCount,
                   storeCalls, snapshot, fetchTiers>>
    /\ UNCHANGED batchVars
    /\ UNCHANGED <<rateVars, chunkVars, taskVars, extractVars>>

\* print_summary: "success_rate = (self.success_count /
\* len(self.processed_urls) * 100) if self.processed_urls else 0", here its
\* integer part.
success_rate ==
    IF processed_urls = {} THEN 0
    ELSE (success_count * 100) \div Cardinality(processed_urls)

\* All orderings of a set as a list: "[url for url in additional_urls ...]"
\* iterates a Python set, whose order is unspecified.
Orderings(S) ==
    {q \in [1..Cardinality(S) -> S] : \A i, j \in 1..Cardinality(S) :
                                          i # j => q[i] # q[j]}

\* Variant of Drained: the next tier is entered while the loop is still running.
DrainedAlways(frame) == TRUE

\* "for url in urls" has run to its end: nothing of the list is left to visit.
Drained(frame) == frame.urls = <<>>

\* After the loop of process_url_list: recurse into the next tier or return.
ProcessUrlListEnd ==
    /\ pc = "list"
    /\ Drained(Top)
    /\ LET next_tier_urls == {u \in Top.additional_urls : ~Visited(u)}
       IN  IF BelowMaxTier(Top.tier) /\ Top.additional_urls # {}
                                     /\ next_tier_urls # {}
           THEN /\ \E q \in Orderings(next_tier_urls) :
                      stack' = Append(stack, Frame(q, Top.tier + 1))
                /\ pc' = "list"
           ELSE /\ pc' = "return"
                /\ UNCHANGED stack
    /\ UNCHANGED <<ingester, environ, climate_memories, run, processed_urls, page, call,
                   fetchCount, storeCalls, outcome, snapshot, success_count,
                   failed_count, fetchTiers>>
    /\ UNCHANGED batchVars
    /\ UNCHANGED <<rateVars, chunkVars, taskVars, extractVars>>

\* "return success_count": the caller adds it to its own count and returns too;
\* the outermost return ends the run.
ProcessUrlListReturn ==
    /\ pc = "return"
    /\ IF Len(stack) > 1
       THEN /\ stack' = [SubSeq(stack, 1, Len(stack) - 1) EXCEPT
                            ![Len(stack) - 1].success_count = @ + Top.success_count]
            /\ pc' = "return"
       ELSE /\ stack' = <<>>
            /\ pc' = "idle"
    /\ UNCHANGED <<ingester, environ, climate_memories, run, processed_urls, page, call,
                   fetchCount, storeCalls, outcome, snapshot, success_count,
                   failed_count, fetchTiers>>
    /\ UNCHANGED batchVars
    /\ UNCHANGED <<rateVars, chunkVars, taskVars, extractVars>>

NextCrawl ==
    \/ StartupExit
    \/ StartCrawl
    \/ ProcessUrlListNext
    \/ ProcessWebpageFetch
    \/ StoreMemoryBegin
    \/ MemoryExists
    \/ GetEmbedding
    \/ StoreMemoryInsert
    \/ ProcessWebpageDone
    \/ ProcessUrlListEnd
    \/ ProcessUrlListReturn

InitCrawl == InitIngest /\ ingester = "unified"

SpecCrawl == InitCrawl /\ [][NextCrawl]_vars

\* The steps of a crawl that has been started. The one task that runs the crawl
\* is never left waiting for good: every await of it (a limiter wait, a request
\* with its timeout, the sleep between URLs) returns or raises.
CrawlStep ==
    \/ ProcessUrlListNext
    \/ ProcessWebpageFetch
    \/ StoreMemoryBegin
    \/ MemoryExists
    \/ GetEmbedding
    \/ StoreMemoryInsert
    \/ ProcessWebpageDone
    \/ ProcessUrlListEnd
    \/ ProcessUrlListReturn

SpecCrawlLive == InitCrawl /\ [][NextCrawl]_vars /\ WF_vars(CrawlStep)

(***************************************************************************)
(* ClimateDataIngester                                                     *)
(***************************************************************************)
\* The index-status helpers that data_ingestion.py imports from constants:
\* the in-memory status is the set of entries flagged indexed, saved to and
\* loaded from the checkpoint file as a whole.
mark_company_as_indexed(status, name) == status \cup {name}
load_company_index_status(saved) == saved
is_company_indexed(status, name) == name \in status

\* Variant of save_company_index_status: the file is written empty.
save_company_index_statusEmpty(status) == {}

save_company_index_status(status) == status

\* Variant of StopsLoop: the loops never look at the flag.
StopsLoopNever(flag) == FALSE

\* "if self.should_exit: break" at the top of each iteration of the loops of
\* process_company, process_all_companies and process_all_reports.
StopsLoop(flag) == flag

\* Variant of Skipped: the force flag is not looked at.
SkippedIgnoringForce(status, name, force) == is_company_indexed(status, name)

\* process_all_companies leaves an entry out: without force the entries come
\* from get_unindexed_companies(), and the loop has
\* "if is_company_indexed(company_name) and not force: continue".
Skipped(status, name, force) == is_company_indexed(status, name) /\ ~force

\* main up to the loop of process_all_companies: __init__ (which loads the
\* saved index status), the signal handlers, the call with the force flag.
StartBatch ==
    /\ ingester = "climate"
    /\ Configured(ingester, environ)
    /\ pc = "idle"
    /\ run < MaxRuns
    /\ NewIngester
    /\ snapshot' = climate_memories
    /\ should_exit' = FALSE
    /\ indexed' = load_company_index_status(checkpoint)
    /\ \E resources \in ResourceLists, force \in BOOLEAN :
          company' = [NoCompany EXCEPT !.catalog = Catalog(resources),
                                       !.force = force]
    /\ pc' = "companies"
    /\ UNCHANGED <<checkpoint, crawlVars>>
    /\ UNCHANGED <<rateVars, chunkVars, taskVars, extractVars>>

\* The same up to the call of process_all_reports, for a run that processes
\* the reports only.
StartReports ==
    /\ ingester = "climate"
    /\ Configured(ingester, environ)
    /\ pc = "idle"
    /\ run < MaxRuns
    /\ NewIngester
    /\ snapshot' = climate_memories
    /\ should_exit' = FALSE
    /\ indexed' = load_company_index_status(checkpoint)
    /\ company' = NoCompany
    /\ pc' = "all_reports"
    /\ UNCHANGED <<checkpoint, crawlVars>>
    /\ UNCHANGED <<rateVars, chunkVars, taskVars, extractVars>>

\* One iteration of "for company in companies" in process_all_companies: the
\* shutdown check, the skip of an entry already indexed, then process_company
\* up to its loop ("if not resources: return 0, 0"). After the loop main is
\* done when it was given --companies and calls process_all_reports otherwise.
ProcessAllCompaniesNext ==
    /\ pc = "companies"
    /\ IF company.next > Len(company.catalog) \/ StopsLoop(should_exit)
       THEN /\ pc' \in {"exit", "all_reports"}
            /\ UNCHANGED company
       ELSE LET entry == company.catalog[company.next]
            IN  /\ company' = [company EXCEPT
                      !.next = @ + 1,
                      !.name = entry.name,
                      !.resources = entry.resources,
                      !.success_count = 0,
                      !.total_count = Len(entry.resources),
                      !.was_indexed = is_company_indexed(indexed, entry.name)]
                /\ pc' = IF \/ Skipped(indexed, entry.name, company.force)
                            \/ entry.resources = <<>>
                         THEN "companies" ELSE "company"
    /\ UNCHANGED <<ingestVarsButPc, crawlVars, should_exit, indexed, checkpoint>>
    /\ UNCHANGED <<rateVars, chunkVars, taskVars, extractVars>>

\* "self.config.reports_dir": IngestionConfig declares no such field, so the
\* read raises AttributeError unless the caller's config object was given one.
ReportsDirKnown(reports_dir) == reports_dir

\* process_all_reports up to its loop. The first entry of
\* CLIMATE_REPORT_RESOURCES is a local file name, so self.config.reports_dir
\* is read at once; the AttributeError of a config without it ends
\* process_all_reports and is caught by main. The config of a run that
\* processed companies is the default one.
ProcessAllReportsBegin ==
    /\ pc = "all_reports"
    /\ \E reports_dir \in (IF company.catalog = <<>> THEN BOOLEAN ELSE {FALSE}) :
          IF ReportsDirKnown(reports_dir)
          THEN \E found \in ReportLists :
                  /\ company' = [company EXCEPT !.reports = found]
                  /\ pc' = IF found = <<>> THEN "exit" ELSE "reports"
          ELSE /\ pc' = "exit"
               /\ UNCHANGED company
    /\ UNCHANGED <<ingestVarsButPc, crawlVars, should_exit, indexed, checkpoint>>
    /\ UNCHANGED <<rateVars, chunkVars, taskVars, extractVars>>

\* One iteration of "for report_path in reports_to_process": the shutdown
\* check, then process_pdf_report up to its chunk loop (the file is read and
\* chunked without an await). A missing file, a text of fewer than 100
\* characters and any exception return False.
ProcessAllReportsNext ==
    /\ pc = "reports"
    /\ IF company.reports = <<>> \/ StopsLoop(should_exit)
       THEN /\ pc' = "exit"
            /\ UNCHANGED <<company, page, fetchCount, outcome>>
       ELSE LET report_path == Head(company.reports)
            IN  /\ company' = [company EXCEPT !.reports = Tail(@)]
                /\ fetchCount' = [fetchCount EXCEPT ![report_path] = @ + 1]
                /\ \/ /\ outcome' = [outcome EXCEPT ![report_path] = "failed"]
                      /\ pc' = "reports"
                      /\ UNCHANGED page
                   \/ /\ \E chunks \in ChunkerResults(BatchChunkLists) :
                            page' = [NoPage EXCEPT !.url = report_path,
                                                   !.chunks = chunks]
                      /\ pc' = "b_store"
                      /\ UNCHANGED outcome
    /\ UNCHANGED <<ingester, environ, climate_memories, run, processed_urls, call,
                   storeCalls, snapshot>>
    /\ UNCHANGED <<crawlVars, should_exit, indexed, checkpoint>>
    /\ UNCHANGED <<rateVars, chunkVars, taskVars, extractVars>>

\* "finally: save_company_index_status()" of main, then the process ends.
MainFinally ==
    /\ pc = "exit"
    /\ checkpoint' = save_company_index_status(indexed)
    /\ pc' = "idle"
    /\ UNCHANGED <<ingestVarsButPc, crawlVars, company, should_exit, indexed>>
    /\ UNCHANGED <<rateVars, chunkVars, taskVars, extractVars>>

\* handle_shutdown_signal: the flag, then save_company_index_status().
HandleShutdownSignal ==
    /\ ingester = "climate"
    /\ pc \notin {"idle", "exited"}
    /\ ~should_exit
    /\ should_exit' = TRUE
    /\ checkpoint' = save_company_index_status(indexed)
    /\ UNCHANGED <<ingestVars, crawlVars, company, indexed>>
    /\ UNCHANGED <<rateVars, chunkVars, taskVars, extractVars>>

\* One iteration of "for resource_url in resources" in process_company, up to
\* the first await of process_webpage: the shutdown check, then the
\* "if url in self.processed_urls: return False" of process_webpage.
ProcessCompanyNext ==
    /\ pc = "company"
    /\ company.resources # <<>>
    /\ IF StopsLoop(should_exit)
       THEN /\ pc' = "company_end"
            /\ UNCHANGED <<company, page>>
       ELSE /\ company' = [company EXCEPT !.resources = Tail(@)]
            /\ IF Visited(Head(company.resources))
               THEN UNCHANGED <<pc, page>>
               ELSE /\ page' = [NoPage EXCEPT !.url = Head(company.resources)]
                    /\ pc' = "b_fetch"
    /\ UNCHANGED <<ingester, environ, climate_memories, run, processed_urls, call,
                   fetchCount, storeCalls, outcome, snapshot>>
    /\ UNCHANGED <<crawlVars, should_exit, indexed, checkpoint>>
    /\ UNCHANGED <<rateVars, chunkVars, taskVars, extractVars>>

\* process_webpage up to the chunk loop. An exception returns False and leaves
\* processed_urls alone; a status other than 200 and a text of fewer than 100
\* characters add the URL to processed_urls and return False.
BatchWebpageFetch ==
    /\ pc = "b_fetch"
    /\ fetchCount' = [fetchCount EXCEPT ![page.url] = @ + 1]
    /\ \/ /\ outcome' = [outcome EXCEPT ![page.url] = "failed"]
          /\ page' = NoPage
          /\ pc' = "company"
          /\ UNCHANGED processed_urls
       \/ /\ outcome' = [outcome EXCEPT ![page.url] = "failed"]
          /\ processed_urls' = processed_urls \cup {page.url}
          /\ page' = NoPage
          /\ pc' = "company"
       \/ /\ \E chunks \in ChunkerResults(BatchChunkLists) :
                page' = [page EXCEPT !.chunks = chunks, !.i = 0,
                                     !.success_count = 0]
          /\ pc' = "b_store"
          /\ UNCHANGED <<outcome, processed_urls>>
    /\ UNCHANGED <<ingester, environ, climate_memories, run, call, storeCalls, snapshot>>
    /\ UNCHANGED <<crawlVars, batchVars>>
    /\ UNCHANGED <<rateVars, chunkVars, taskVars, extractVars>>

\* store_document after its rate-limiter wait: the length validation decides
\* between "return False" and the embedding ("url" and source_type are always
\* set by process_webpage and "file_path" by process_pdf_report, so the two
\* other validations pass).
AfterDocValidation(len) == IF TooShort(len) THEN "return_false" ELSE "b_embed"

\* Variant of ChunkLoopBreaks: the chunk loop never looks at the flag.
ChunkLoopBreaksNever(source, flag) == FALSE

\* "if self.should_exit: break" at the top of the chunk loop of
\* process_pdf_report; the chunk loop of process_webpage has no such test.
ChunkLoopBreaks(source, flag) == source \in Reports /\ flag

\* store_document, first part: the wait and the validation.
StoreDocumentBegin ==
    /\ pc = "b_store"
    /\ page.i < Len(page.chunks)
    /\ ~ChunkLoopBreaks(page.url, should_exit)
    /\ storeCalls' = [storeCalls EXCEPT ![BeginCall.key] = @ + 1]
    /\ IF AfterDocValidation(BeginCall.len) = "return_false"
       THEN /\ call' = [BeginCall EXCEPT !.result = "false"]
            /\ page' = ChunkStored(FALSE)
            /\ pc' = "b_store"
       ELSE /\ call' = BeginCall
            /\ pc' = AfterDocValidation(BeginCall.len)
            /\ UNCHANGED page
    /\ UNCHANGED <<ingester, environ, climate_memories, run, processed_urls, fetchCount,
                   outcome, snapshot>>
    /\ UNCHANGED <<crawlVars, batchVars>>
    /\ UNCHANGED <<rateVars, chunkVars, taskVars, extractVars>>

\* What leaves get_embedding and store_document when a request of theirs
\* fails: both bodies are wrapped in "try: ... except Exception", which logs and
\* returns None or False, so no exception reaches the decorator.
Raises(failed) == FALSE

\* The @retry decorator runs the function again when an exception left it and
\* fewer than stop_after_attempt attempts were made.
RetryAgain(raised, attempts) == raised /\ attempts < STOP_AFTER_ATTEMPT

\* Variant of AfterDocEmbedding: the insert goes ahead without a vector.
AfterDocEmbeddingIgnored(ok) == "b_insert"

\* "if not embedding_list or not isinstance(embedding_list, list): return False"
AfterDocEmbedding(ok) == IF ok THEN "b_insert" ELSE "return_false"

\* store_document, second part: get_embedding, a vector or None.
StoreDocumentEmbed ==
    /\ pc = "b_embed"
    /\ \E ok \in BOOLEAN :
          LET c == [call EXCEPT !.embeds = @ + 1, !.embedding = ok,
                                !.trace = Append(@, "embedding")]
          IN  IF RetryAgain(Raises(~ok), c.embeds)
              THEN /\ call' = c
                   /\ pc' = "b_embed"
                   /\ UNCHANGED page
              ELSE IF AfterDocEmbedding(ok) = "return_false"
              THEN /\ call' = [c EXCEPT !.result = "false"]
                   /\ page' = ChunkStored(FALSE)
                   /\ pc' = "b_store"
              ELSE /\ call' = c
                   /\ pc' = AfterDocEmbedding(ok)
                   /\ UNCHANGED page
    /\ UNCHANGED <<ingester, environ, climate_memories, run, processed_urls, fetchCount,
                   storeCalls, outcome, snapshot>>
    /\ UNCHANGED <<crawlVars, batchVars>>
    /\ UNCHANGED <<rateVars, chunkVars, taskVars, extractVars>>

\* store_document, last part: the second wait and the insert; a result without
\* data and any exception return False. The request is answered with a row
\* ("created"), a 4xx rejection ("rejected"), a 5xx or network error ("error"),
\* or not at all although the server committed ("timeout").
StoreDocumentInsert ==
    /\ pc = "b_insert"
    /\ \E outcome_ \in {"created", "rejected", "error", "timeout"} :
          LET c == [call EXCEPT !.inserts = @ + 1, !.answer = outcome_,
                                !.trace = @ \o <<"wait", "insert">>]
          IN  /\ climate_memories' = [climate_memories EXCEPT
                                         ![call.key] = Inserted(outcome_, @)]
              /\ IF RetryAgain(Raises(outcome_ \in {"error", "timeout"}),
                               c.inserts)
                 THEN /\ call' = c
                      /\ pc' = "b_embed"
                      /\ UNCHANGED page
                 ELSE /\ call' = [c EXCEPT !.result = IF outcome_ = "created"
                                                     THEN "true" ELSE "false"]
                      /\ page' = ChunkStored(outcome_ = "created")
                      /\ pc' = "b_store"
    /\ UNCHANGED <<ingester, environ, run, processed_urls, fetchCount, storeCalls, outcome,
                   snapshot>>
    /\ UNCHANGED <<crawlVars, batchVars>>
    /\ UNCHANGED <<rateVars, chunkVars, taskVars, extractVars>>

\* End of process_webpage: "self.processed_urls.add(url)", "return
\* success_count > 0", and in process_company "if success: success_count += 1".
BatchWebpageDone ==
    /\ pc = "b_store"
    /\ page.url \in Urls
    /\ page.i = Len(page.chunks)
    /\ processed_urls' = processed_urls \cup {page.url}
    /\ LET success == SourceSucceeded(page.success_count)
       IN  /\ outcome' = [outcome EXCEPT
                             ![page.url] = IF success THEN "success" ELSE "failed"]
           /\ company' = [company EXCEPT
                             !.success_count = IF success THEN @ + 1 ELSE @]
    /\ page' = NoPage
    /\ call' = NoCall
    /\ pc' = "company"
    /\ UNCHANGED <<ingester, environ, climate_memories, run, fetchCount, storeCalls,
                   snapshot>>
    /\ UNCHANGED <<crawlVars, should_exit, indexed, checkpoint>>
    /\ UNCHANGED <<rateVars, chunkVars, taskVars, extractVars>>

\* End of process_pdf_report, after the last chunk or at the break:
\* "return success_count > 0", counted by process_all_reports.
ProcessPdfReportDone ==
    /\ pc = "b_store"
    /\ page.url \in Reports
    /\ page.i = Len(page.chunks) \/ ChunkLoopBreaks(page.url, should_exit)
    /\ outcome' = [outcome EXCEPT
                      ![page.url] = IF SourceSucceeded(page.success_count)
                                    THEN "success" ELSE "failed"]
    /\ page' = NoPage
    /\ call' = NoCall
    /\ pc' = "reports"
    /\ UNCHANGED <<ingester, environ, climate_memories, run, processed_urls, fetchCount,
                   storeCalls, snapshot>>
    /\ UNCHANGED <<crawlVars, batchVars>>
    /\ UNCHANGED <<rateVars, chunkVars, taskVars, extractVars>>

\* Variant of ShouldMark: the entry is marked whatever the count.
ShouldMarkAlways(count) == TRUE

\* "if success_count > 0" at the end of process_company.
ShouldMark(count) == count > 0

\* After the loop of process_company: "if success_count > 0" the entry is marked
\* indexed and the rate limiter awaited; otherwise the call returns.
ProcessCompanyEnd ==
    /\ \/ pc = "company" /\ company.resources = <<>>
       \/ pc = "company_end"
    /\ IF ShouldMark(company.success_count)
       THEN /\ indexed' = mark_company_as_indexed(indexed, company.name)
            /\ pc' = "company_save"
       ELSE /\ pc' = "companies"
            /\ UNCHANGED indexed
    /\ UNCHANGED <<ingestVarsButPc, crawlVars, company, should_exit, checkpoint>>
    /\ UNCHANGED <<rateVars, chunkVars, taskVars, extractVars>>

\* After the wait: save_company_index_status(), and process_company returns.
ProcessCompanySave ==
    /\ pc = "company_save"
    /\ checkpoint' = save_company_index_status(indexed)
    /\ pc' = "companies"
    /\ UNCHANGED <<ingestVarsButPc, crawlVars, company, should_exit, indexed>>
    /\ UNCHANGED <<rateVars, chunkVars, taskVars, extractVars>>

NextBatch ==
    \/ StartupExit
    \/ StartBatch
    \/ HandleShutdownSignal
    \/ ProcessAllCompaniesNext
    \/ ProcessCompanyNext
    \/ BatchWebpageFetch
    \/ StoreDocumentBegin
    \/ StoreDocumentEmbed
    \/ StoreDocumentInsert
    \/ BatchWebpageDone
    \/ ProcessCompanyEnd
    \/ ProcessCompanySave
    \/ ProcessAllReportsBegin
    \/ MainFinally

\* The steps of a run that processes the reports only.
NextReports ==
    \/ StartupExit
    \/ StartReports
    \/ HandleShutdownSignal
    \/ ProcessAllReportsBegin
    \/ ProcessAllReportsNext
    \/ StoreDocumentBegin
    \/ StoreDocumentEmbed
    \/ StoreDocumentInsert
    \/ ProcessPdfReportDone
    \/ MainFinally

InitBatch == InitIngest /\ ingester = "climate"

\* Runs over the catalog, each followed by the call of process_all_reports
\* unless --companies was given.
SpecBatch == InitBatch /\ [][NextBatch]_vars

\* Runs over the reports.
SpecReports == InitBatch /\ [][NextReports]_vars

\* Runs of data_ingestion.py of either kind, in any order.
SpecClimate == InitBatch /\ [][NextBatch \/ NextReports]_vars

\* Either script, run any number of times up to the bound.
NextIngest == NextCrawl \/ NextBatch

SpecIngest == InitIngest /\ [][NextIngest]_vars

(***************************************************************************)
(* Concurrent tasks on one ingester object                                 *)
(***************************************************************************)
\* The locals of a task: given is the list or URL it was called with, urls
\* what is left of the list, url the URL at hand, fetched the URLs it has
\* requested, n the number of chunks of its page and i the position of its
\* chunk loop.
Task(given) ==
    [pc |-> "list", given |-> given, urls |-> given, url |-> "",
     fetched |-> {}, n |-> 0, i |-> 0]

\* Variant of MarkVisited: the URL is not added before the await.
MarkVisitedNot(visited, url) == visited

\* "self.processed_urls.add(url)" of process_url_list, the statement after
\* the membership test, with no await between the two.
MarkVisited(visited, url) == visited \cup {url}

\* One UnifiedURLIngester is constructed and process_url_list is called on
\* it once per task, at the maximum tier, the calls gathered on one event
\* loop.
SpawnCrawlTasks ==
    /\ ingester = "unified"
    /\ Configured(ingester, environ)
    /\ pc = "idle"
    /\ run = 0
    /\ tasks = <<>>
    /\ NewIngester
    /\ tasks' \in [Tasks -> {Task(l) : l \in TaskLists}]
    /\ success_count' = 0
    /\ failed_count' = 0
    /\ pc' = "tasks"
    /\ UNCHANGED <<snapshot, stack, fetchTiers, batchVars, rateVars, chunkVars, extractVars>>

\* One iteration of "for url in urls" of a task up to its first await:
\* the membership test, the add, the call of process_webpage.
TaskListNext(t) ==
    /\ pc = "tasks"
    /\ ingester = "unified"
    /\ tasks[t].pc = "list"
    /\ tasks[t].urls # <<>>
    /\ LET url == Head(tasks[t].urls)
       IN  IF Visited(url)
           THEN /\ tasks' = [tasks EXCEPT ![t].urls = Tail(@)]
                /\ UNCHANGED processed_urls
           ELSE /\ processed_urls' = MarkVisited(processed_urls, url)
                /\ tasks' = [tasks EXCEPT ![t].urls = Tail(@), ![t].url = url,
                                          ![t].pc = "fetch"]
    /\ UNCHANGED <<ingester, environ, climate_memories, run, pc, page, call,
                   fetchCount, storeCalls, outcome, snapshot>>
    /\ UNCHANGED <<crawlVars, batchVars, rateVars, chunkVars, extractVars>>

\* process_webpage of a task, from the limiter wait and the GET to its
\* return (its store calls are those of the crawl above): one of the two
\* counters is increased.
TaskWebpage(t) ==
    /\ pc = "tasks"
    /\ ingester = "unified"
    /\ tasks[t].pc = "fetch"
    /\ fetchCount' = [fetchCount EXCEPT ![tasks[t].url] = @ + 1]
    /\ \E success \in BOOLEAN :
          /\ success_count' = IF success THEN success_count + 1 ELSE success_count
          /\ failed_count' = IF success THEN failed_count ELSE failed_count + 1
    /\ tasks' = [tasks EXCEPT ![t].fetched = @ \cup {tasks[t].url},
                              ![t].pc = "sleep"]
    /\ UNCHANGED <<ingester, environ, climate_memories, run, pc, processed_urls,
                   page, call, storeCalls, outcome, snapshot>>
    /\ UNCHANGED <<stack, fetchTiers, batchVars, rateVars, chunkVars, extractVars>>

\* "await asyncio.sleep(2)", then the next iteration.
TaskSleep(t) ==
    /\ pc = "tasks"
    /\ ingester = "unified"
    /\ tasks[t].pc = "sleep"
    /\ tasks' = [tasks EXCEPT ![t].pc = "list"]
    /\ UNCHANGED <<ingestVars, crawlVars, batchVars, rateVars, chunkVars, extractVars>>

\* The list is used up: at the maximum tier process_url_list returns.
TaskReturn(t) ==
    /\ pc = "tasks"
    /\ ingester = "unified"
    /\ tasks[t].pc = "list"
    /\ tasks[t].urls = <<>>
    /\ tasks' = [tasks EXCEPT ![t].pc = "done"]
    /\ UNCHANGED <<ingestVars, crawlVars, batchVars, rateVars, chunkVars, extractVars>>

NextCrawlTasks ==
    \/ SpawnCrawlTasks
    \/ \E t \in Tasks : TaskListNext(t)
    \/ \E t \in Tasks : TaskWebpage(t)
    \/ \E t \in Tasks : TaskSleep(t)
    \/ \E t \in Tasks : TaskReturn(t)

SpecCrawlTasks == InitCrawl /\ [][NextCrawlTasks]_vars

\* One ClimateDataIngester is constructed and process_webpage is called on it
\* once per worker, the calls gathered on one event loop.
SpawnWorkers ==
    /\ ingester = "climate"
    /\ Configured(ingester, environ)
    /\ pc = "idle"
    /\ run = 0
    /\ tasks = <<>>
    /\ NewIngester
    /\ tasks' \in [Tasks -> {[Task(<<u>>) EXCEPT !.url = u, !.pc = "test"] :
                               u \in {"a/1", "a/2"}}]
    /\ pc' = "workers"
    /\ UNCHANGED <<snapshot, crawlVars, batchVars, rateVars, chunkVars, extractVars>>

\* "if url in self.processed_urls: return False", then the limiter wait.
WorkerTest(t) ==
    /\ pc = "workers"
    /\ tasks[t].pc = "test"
    /\ tasks' = [tasks EXCEPT ![t].pc = IF Visited(tasks[t].url)
                                        THEN "done" ELSE "fetch"]
    /\ UNCHANGED <<ingestVars, crawlVars, batchVars, rateVars, chunkVars, extractVars>>

\* The GET of a worker and what follows up to the chunk loop: an exception
\* returns False, a status other than 200 and a text of fewer than 100
\* characters add the URL to processed_urls and return False.
WorkerFetch(t) ==
    /\ pc = "workers"
    /\ tasks[t].pc = "fetch"
    /\ fetchCount' = [fetchCount EXCEPT ![tasks[t].url] = @ + 1]
    /\ \/ /\ tasks' = [tasks EXCEPT ![t].pc = "done",
                                     ![t].fetched = @ \cup {tasks[t].url}]
          /\ UNCHANGED processed_urls
       \/ /\ tasks' = [tasks EXCEPT ![t].pc = "done",
                                     ![t].fetched = @ \cup {tasks[t].url}]
          /\ processed_urls' = processed_urls \cup {tasks[t].url}
       \/ /\ \E n \in 1..MaxPageChunks :
                tasks' = [tasks EXCEPT ![t].pc = "store", ![t].n = n, ![t].i = 0,
                                       ![t].fetched = @ \cup {tasks[t].url}]
          /\ UNCHANGED processed_urls
    /\ UNCHANGED <<ingester, environ, climate_memories, run, pc, page, call,
                   storeCalls, outcome, snapshot>>
    /\ UNCHANGED <<crawlVars, batchVars, rateVars, chunkVars, extractVars>>

\* One store_document call of a worker's chunk loop (the call itself is that
\* of the batch above): the row is created or it is not.
WorkerStore(t) ==
    /\ pc = "workers"
    /\ tasks[t].pc = "store"
    /\ tasks[t].i < tasks[t].n
    /\ LET key == <<tasks[t].url, tasks[t].i>>
       IN  /\ storeCalls' = [storeCalls EXCEPT ![key] = @ + 1]
           /\ \E outcome_ \in {"created", "rejected"} :
                 climate_memories' = [climate_memories EXCEPT
                                         ![key] = Inserted(outcome_, @)]
    /\ tasks' = [tasks EXCEPT ![t].i = @ + 1]
    /\ UNCHANGED <<ingester, environ, run, pc, processed_urls, page, call,
                   fetchCount, outcome, snapshot>>
    /\ UNCHANGED <<crawlVars, batchVars, rateVars, chunkVars, extractVars>>

\* After the chunk loop: "self.processed_urls.add(url)" and the return.
WorkerDone(t) ==
    /\ pc = "workers"
    /\ tasks[t].pc = "store"
    /\ tasks[t].i = tasks[t].n
    /\ processed_urls' = processed_urls \cup {tasks[t].url}
    /\ tasks' = [tasks EXCEPT ![t].pc = "done"]
    /\ UNCHANGED <<ingester, environ, climate_memories, run, pc, page, call,
                   fetchCount, storeCalls, outcome, snapshot>>
    /\ UNCHANGED <<crawlVars, batchVars, rateVars, chunkVars, extractVars>>

NextWorkers ==
    \/ SpawnWorkers
    \/ \E t \in Tasks : WorkerTest(t)
    \/ \E t \in Tasks : WorkerFetch(t)
    \/ \E t \in Tasks : WorkerStore(t)
    \/ \E t \in Tasks : WorkerDone(t)

SpecWorkers == InitBatch /\ [][NextWorkers]_vars

(***************************************************************************)
(* RateLimiter                                                             *)
(***************************************************************************)
\* Variant of LockFree: the gate is entered without the lock.
LockFreeAlways == TRUE

\* asyncio.Lock.acquire takes the lock at once only when it is free and nobody
\* is queued for it; otherwise the caller is suspended at the end of the queue.
LockFree == lock = 0 /\ waiters = <<>>

\* "async with self.lock": entry of wait().
WaitEnter(c) ==
    /\ rpc[c] = "idle"
    /\ IF LockFree
       THEN /\ lock' = c
            /\ rpc' = [rpc EXCEPT ![c] = "locked"]
            /\ UNCHANGED waiters
       ELSE /\ waiters' = Append(waiters, c)
            /\ rpc' = [rpc EXCEPT ![c] = "queued"]
            /\ UNCHANGED lock
    /\ UNCHANGED <<now, last_call_time, wake, releases>>
    /\ UNCHANGED <<ingestVars, crawlVars, batchVars, chunkVars, taskVars, extractVars>>

\* "self.last_call_time = time.time()" and the exit of "async with": the lock
\* goes to the first queued caller, which resumes inside the gate.
Release(c) ==
    /\ last_call_time' = now
    /\ releases' = Append(releases, now)
    /\ IF waiters = <<>>
       THEN /\ lock' = 0
            /\ rpc' = [rpc EXCEPT ![c] = "done"]
            /\ UNCHANGED waiters
       ELSE /\ lock' = Head(waiters)
            /\ waiters' = Tail(waiters)
            /\ rpc' = [rpc EXCEPT ![c] = "done", ![Head(waiters)] = "locked"]

\* "asyncio.sleep(self.min_interval - elapsed)": the time the sleep is due.
SleepUntil(elapsed) == now + (MinInterval - elapsed)

\* Inside the gate: "now = time.time(); elapsed = now - self.last_call_time";
\* sleep when the interval has not elapsed, else record the call and leave.
WaitMeasure(c) ==
    /\ rpc[c] = "locked"
    /\ LET elapsed == now - last_call_time
       IN  IF elapsed < MinInterval
           THEN /\ wake' = [wake EXCEPT ![c] = SleepUntil(elapsed)]
                /\ rpc' = [rpc EXCEPT ![c] = "sleeping"]
                /\ UNCHANGED <<last_call_time, lock, waiters, releases>>
           ELSE /\ Release(c)
                /\ UNCHANGED wake
    /\ UNCHANGED now
    /\ UNCHANGED <<ingestVars, crawlVars, batchVars, chunkVars, taskVars, extractVars>>

\* The sleep is over (not before it is due, possibly later).
WaitWake(c) ==
    /\ rpc[c] = "sleeping"
    /\ now >= wake[c]
    /\ Release(c)
    /\ UNCHANGED <<now, wake>>
    /\ UNCHANGED <<ingestVars, crawlVars, batchVars, chunkVars, taskVars, extractVars>>

\* Time passes.
Tick ==
    /\ now < MinInterval + MaxTicks
    /\ now' = now + 1
    /\ UNCHANGED <<last_call_time, lock, waiters, rpc, wake, releases>>
    /\ UNCHANGED <<ingestVars, crawlVars, batchVars, chunkVars, taskVars, extractVars>>

NextRate ==
    \/ \E c \in Callers : WaitEnter(c)
    \/ \E c \in Callers : WaitMeasure(c)
    \/ \E c \in Callers : WaitWake(c)
    \/ Tick

InitRate ==
    /\ InitIngest
    /\ ingester = "unified"
    /\ Configured(ingester, environ)

SpecRate == InitRate /\ [][NextRate]_vars

(***************************************************************************)
(* smart_chunker                                                           *)
(***************************************************************************)
Max(a, b) == IF a >= b THEN a ELSE b
Min(a, b) == IF a <= b THEN a ELSE b

\* \s of the regular expressions, and the characters str.strip() removes.
Whitespace == {" ", "\n"}

\* [.!?] of the split pattern.
SentenceEnd == {"."}

\* Variant of Truncate: the slice keeps one character too many.
TruncateOffByOne(t, max_content_size) ==
    IF Len(t) > max_content_size THEN SubSeq(t, 1, max_content_size + 1) ELSE t

\* "text = text[:MAX_CONTENT_SIZE]" when the text is longer.
Truncate(t, max_content_size) ==
    IF Len(t) > max_content_size THEN SubSeq(t, 1, max_content_size) ELSE t

\* Length of the run of characters of set S that starts at position i of t.
RECURSIVE RunLength(_, _, _)
RunLength(t, i, S) ==
    IF i > Len(t) \/ t[i] \notin S THEN 0 ELSE 1 + RunLength(t, i + 1, S)

\* re.sub(r'\n{3,}', '\n\n', text), from position i on.
RECURSIVE CollapseNewlines(_, _)
CollapseNewlines(t, i) ==
    IF i > Len(t) THEN <<>>
    ELSE LET r == RunLength(t, i, {"\n"})
         IN  IF r >= 3 THEN <<"\n", "\n">> \o CollapseNewlines(t, i + r)
             ELSE <<t[i]>> \o CollapseNewlines(t, i + 1)

\* re.sub(r'\s+', ' ', text), from position i on.
RECURSIVE CollapseWhitespace(_, _)
CollapseWhitespace(t, i) ==
    IF i > Len(t) THEN <<>>
    ELSE LET r == RunLength(t, i, Whitespace)
         IN  IF r >= 1 THEN <<" ">> \o CollapseWhitespace(t, i + r)
             ELSE <<t[i]>> \o CollapseWhitespace(t, i + 1)

\* Length of the match of r'[.!?]\s+|\n{2,}' at position i of t, 0 when none.
MatchLength(t, i) ==
    IF t[i] \in SentenceEnd /\ RunLength(t, i + 1, Whitespace) >= 1
    THEN 1 + RunLength(t, i + 1, Whitespace)
    ELSE IF RunLength(t, i, {"\n"}) >= 2 THEN RunLength(t, i, {"\n"})
    ELSE 0

\* re.split(r'([.!?]\s+|\n{2,})', text) from position i on, where piece is the
\* text since the last separator: the pieces alternate with the separators.
RECURSIVE Split(_, _, _)
Split(t, i, piece) ==
    IF i > Len(t) THEN <<piece>>
    ELSE LET m == MatchLength(t, i)
         IN  IF m > 0
             THEN <<piece, SubSeq(t, i, i + m - 1)>> \o Split(t, i + m, <<>>)
             ELSE Split(t, i + 1, Append(piece, t[i]))

\* Variant of Segments: the separator after a piece is left out.
RECURSIVE SegmentsWithoutSeparator(_, _)
SegmentsWithoutSeparator(parts, i) ==
    IF i > Len(parts) THEN <<>>
    ELSE <<parts[i]>> \o SegmentsWithoutSeparator(parts, i + 2)

\* "for i in range(0, len(segments), 2)": each piece with the separator after it.
RECURSIVE Segments(_, _)
Segments(parts, i) ==
    IF i > Len(parts) THEN <<>>
    ELSE <<IF i + 1 <= Len(parts) THEN parts[i] \o parts[i + 1] ELSE parts[i]>>
         \o Segments(parts, i + 2)

\* str.strip()
RECURSIVE Strip(_)
Strip(t) ==
    IF t = <<>> THEN t
    ELSE IF t[1] \in Whitespace THEN Strip(Tail(t))
    ELSE IF t[Len(t)] \in Whitespace THEN Strip(SubSeq(t, 1, Len(t) - 1))
    ELSE t

\* Variant of Seed: the new chunk is seeded with the whole chunk before it.
SeedWhole(cur, chunk_overlap) == cur

\* Variant of Seed: the new chunk starts empty.
SeedNone(cur, chunk_overlap) == <<>>

\* "overlap_start = max(0, len(...) - self.chunk_overlap)" and the slice from it:
\* what the chunk opened after cur is seeded with.
Seed(cur, chunk_overlap) ==
    LET overlap_start == Max(0, Len(cur) - chunk_overlap)
    IN  SubSeq(cur, overlap_start + 1, Len(cur))

\* The accumulation loop from segment k on. acc is the list chunks, cur is
\* ''.join(current_chunk) (current_length is its length) and started tells
\* whether the list current_chunk is non-empty.
RECURSIVE Accumulate(_, _, _, _, _, _, _)
Accumulate(segs, k, acc, cur, started, chunk_size, chunk_overlap) ==
    IF k > Len(segs)
    THEN IF started THEN Append(acc, Strip(cur)) ELSE acc
    ELSE IF Len(cur) + Len(segs[k]) > chunk_size /\ started
         THEN Accumulate(segs, k + 1, Append(acc, Strip(cur)),
                         Seed(cur, chunk_overlap) \o segs[k], TRUE,
                         chunk_size, chunk_overlap)
         ELSE Accumulate(segs, k + 1, acc, cur \o segs[k], TRUE,
                         chunk_size, chunk_overlap)

\* ''.join(...) of a list of strings.
RECURSIVE Join(_)
Join(strings) == IF strings = <<>> THEN <<>> ELSE Head(strings) \o Join(Tail(strings))

\* The list current_chunk as the loop builds it: seed is the overlap slice a
\* flush puts at its head (empty in the first chunk), added the segments
\* appended since.
Joined(current_chunk) == current_chunk.seed \o Join(current_chunk.added)

\* The accumulation loop from segment k on with the list current_chunk kept
\* apart: acc holds, for every chunk flushed, the list it was joined from.
RECURSIVE Compose(_, _, _, _, _, _, _)
Compose(segs, k, acc, current_chunk, started, chunk_size, chunk_overlap) ==
    IF k > Len(segs)
    THEN IF started THEN Append(acc, current_chunk) ELSE acc
    ELSE IF Len(Joined(current_chunk)) + Len(segs[k]) > chunk_size /\ started
         THEN Compose(segs, k + 1, Append(acc, current_chunk),
                      [seed |-> Seed(Joined(current_chunk), chunk_overlap),
                       added |-> <<segs[k]>>],
                      TRUE, chunk_size, chunk_overlap)
         ELSE Compose(segs, k + 1, acc,
                      [current_chunk EXCEPT !.added = Append(@, segs[k])],
                      TRUE, chunk_size, chunk_overlap)

\* The text after the size limit and the two clean-up substitutions.
Normalise(t, max_content_size) ==
    CollapseWhitespace(CollapseNewlines(Truncate(t, max_content_size), 1), 1)

\* The list chunks of UnifiedURLIngester.smart_chunker before "Limit chunks".
UncappedChunks(t, chunk_size, chunk_overlap, max_content_size) ==
    Accumulate(Segments(Split(Normalise(t, max_content_size), 1, <<>>), 1),
               1, <<>>, <<>>, FALSE, chunk_size, chunk_overlap)

\* UnifiedURLIngester.smart_chunker
smart_chunker(t, chunk_size, chunk_overlap, max_content_size, max_chunks) ==
    LimitChunks(UncappedChunks(t, chunk_size, chunk_overlap, max_content_size),
                max_chunks)

\* ClimateDataIngester.smart_chunker: split is what the external
\* RecursiveCharacterTextSplitter returned for the size-limited text.
climate_smart_chunker(split, max_chunks) == LimitChunks(split, max_chunks)

\* All texts of up to n characters.
Texts(n) == UNION {[1..k -> Alphabet] : k \in 0..n}

\* The texts handed to ClimateDataIngester.smart_chunker.
LibTexts == UNION {[1..k -> {"a", "."}] : k \in 0..MaxTextLen}

\* The lists the external splitter may return.
LibOutputs == UNION {[1..k -> {<<"a">>, <<".">>}] : k \in 0..MaxLibChunks}

InitChunk ==
    /\ InitIngest
    /\ ingester = "unified"
    /\ Configured(ingester, environ)

\* A call of smart_chunker is made: of either class, on any text.
CallSmartChunker ==
    /\ cpc = "off"
    /\ \/ /\ chunker' = "unified"
          /\ text' \in Texts(MaxTextLen)
          /\ lib_chunks' = <<>>
       \/ /\ chunker' = "climate"
          /\ text' \in LibTexts
          /\ lib_chunks' \in LibOutputs
    /\ cpc' = "ready"
    /\ UNCHANGED <<split_input, out_chunks>>
    /\ UNCHANGED <<ingestVars, crawlVars, batchVars, rateVars, taskVars, extractVars>>

\* UnifiedURLIngester.smart_chunker returns.
SmartChunker ==
    /\ cpc = "ready"
    /\ chunker = "unified"
    /\ out_chunks' = smart_chunker(text, ChunkSize, ChunkOverlap, MaxContentSize,
                                   MaxChunks)
    /\ cpc' = "done"
    /\ UNCHANGED <<chunker, text, split_input, lib_chunks>>
    /\ UNCHANGED <<ingestVars, crawlVars, batchVars, rateVars, taskVars, extractVars>>

\* ClimateDataIngester.smart_chunker returns.
ClimateSmartChunker ==
    /\ cpc = "ready"
    /\ chunker = "climate"
    /\ split_input' = Truncate(text, MaxContentSize)
    /\ out_chunks' = climate_smart_chunker(lib_chunks, MaxChunks)
    /\ cpc' = "done"
    /\ UNCHANGED <<chunker, text, lib_chunks>>
    /\ UNCHANGED <<ingestVars, crawlVars, batchVars, rateVars, taskVars, extractVars>>

NextChunk ==
    \/ CallSmartChunker
    \/ SmartChunker
    \/ ClimateSmartChunker

SpecChunk == InitChunk /\ [][NextChunk]_vars

(***************************************************************************)
(* extract_structured_content                                              *)
(***************************************************************************)
\* An element is the list of its child tags; a tag is its name and its own
\* children. Every leaf holds a text of its own, told apart by the position
\* of the leaf: <<i>> for the i-th child, <<i, j>> for the j-th child of the
\* i-th child. "p" stands for the kinds that emit their text (headings,
\* paragraphs, list items), "div" for the containers, "span" for the inline
\* tags, "blockquote" for a tag neither function names.
LeafTags == {"p", "span", "blockquote", "table"}

Leaf(name) == [name |-> name, kids |-> <<>>]

LeafLists(n) == UNION {[1..k -> {Leaf(x) : x \in LeafTags}] : k \in 1..n}

Elements ==
    LET nodes == {Leaf(x) : x \in LeafTags}
                 \cup {[name |-> "div", kids |-> l] : l \in LeafLists(MaxNested)}
    IN  UNION {[1..k -> nodes] : k \in 1..MaxChildren}

\* "[Table content omitted]"
TableOmitted == <<0>>

\* element.get_text(separator='\n', strip=True): the texts of all descendants
\* in document order, from child i on.
RECURSIVE get_text(_, _, _)
get_text(kids, path, i) ==
    IF i > Len(kids) THEN <<>>
    ELSE (IF kids[i].kids = <<>> THEN <<Append(path, i)>>
          ELSE get_text(kids[i].kids, Append(path, i), 1))
         \o get_text(kids, path, i + 1)

\* The list content of extract_structured_content after the loop over
\* element.find_all(recursive=False), from child i on, and the function
\* itself with its fallback "if not content and element.get_text(strip=True)".
\* The branches for 'pre', 'code', 'table' and the inline tags exist in
\* data_ingestion.py only.
RECURSIVE content(_, _, _, _)
RECURSIVE extract_structured_content(_, _, _)
content(kids, path, i, script) ==
    IF i > Len(kids) THEN <<>>
    ELSE LET child == kids[i]
             item == CASE child.name = "p" -> <<Append(path, i)>>
                       [] child.name = "div" ->
                            extract_structured_content(child.kids, Append(path, i),
                                                       script)
                       [] child.name = "table" /\ script = "climate" ->
                            <<TableOmitted>>
                       [] child.name = "span" /\ script = "climate" ->
                            <<Append(path, i)>>
                       [] OTHER -> <<>>
         IN  item \o content(kids, path, i + 1, script)

extract_structured_content(kids, path, script) ==
    IF content(kids, path, 1, script) = <<>>
    THEN get_text(kids, path, 1)
    ELSE content(kids, path, 1, script)

\* An element of a fetched page is handed to the function.
CallExtract ==
    /\ epc = "off"
    /\ element' \in Elements
    /\ epc' = "ready"
    /\ UNCHANGED extracted
    /\ UNCHANGED <<ingestVars, crawlVars, batchVars, rateVars, chunkVars, taskVars>>

\* extract_structured_content of the script at hand returns.
ExtractStructuredContent ==
    /\ epc = "ready"
    /\ extracted' = extract_structured_content(element, <<>>, ingester)
    /\ epc' = "done"
    /\ UNCHANGED element
    /\ UNCHANGED <<ingestVars, crawlVars, batchVars, rateVars, chunkVars, taskVars>>

NextExtract == CallExtract \/ ExtractStructuredContent

InitExtract == InitIngest /\ Configured(ingester, environ)

SpecExtract == InitExtract /\ [][NextExtract]_vars

(***************************************************************************)
(* Properties of the crawl and batch ingesters                             *)
(***************************************************************************)

\* C1: in every reachable state, after any sequence of crawl runs in which each
\* existence probe and each insert may succeed or fail, the table holds at most
\* one row per identity key (url, chunk_index).
C1_AtMostOneRowPerKey == \A k \in Keys : climate_memories[k] <= 1

\* C2: a second batch run over a resource URL inserts no new row for a key
\* (url, chunk_index) that was already stored when the run began.
C2_SecondRunInsertsNothing ==
    run >= 2 =>
        \A k \in Keys : snapshot[k] > 0 => climate_memories[k] = snapshot[k]

\* C5: for a crawl started at a tier not above the maximum, no URL is fetched or
\* stored at a tier greater than MAX_TIER, no activation of process_url_list
\* runs at such a tier, and a page at the maximum tier contributes no links.
C5_TierBound ==
    /\ \A t \in fetchTiers : t <= MAX_TIER
    /\ \A i \in 1..Len(stack) : stack[i].tier <= MAX_TIER
    /\ page.tier <= MAX_TIER
    /\ page.tier = MAX_TIER => page.additional_urls = {}

\* A page at the maximum tier, below the seed tier, all chunks handled and at
\* least one stored, carrying a same-host link to a URL not yet visited.
C5_Witness ==
    /\ pc = "store"
    /\ Len(stack) = 2
    /\ page.tier = MAX_TIER
    /\ page.i = Len(page.chunks)
    /\ page.success_count > 0
    /\ \E h \in page.hrefs : netloc(h) = netloc(page.url) /\ h \notin processed_urls

\* C6: within one crawl run every URL is fetched at most once, across all tiers
\* and however many pages link to it.
C6_FetchedAtMostOnce == \A u \in Urls : fetchCount[u] <= 1

\* The tier-2 list has been processed, its page links back to the seed, and
\* process_url_list returns because every link is already visited.
C6_Witness ==
    /\ pc = "return"
    /\ Len(stack) = 2
    /\ stack[1].tier = 1
    /\ "a/1" \in stack[2].additional_urls
    /\ fetchCount["a/1"] = 1
    /\ fetchCount["a/2"] = 1

\* A store call is in progress or has returned, for content below the minimum.
ShortCall == call.key # NoCall.key /\ call.len < MIN_CONTENT_LEN

\* The chunk loop of process_webpage has ended and every chunk was too short.
AllChunksShort ==
    /\ pc \in {"store", "b_store"}
    /\ page.chunks # <<>>
    /\ page.i = Len(page.chunks)
    /\ \A j \in 1..Len(page.chunks) : page.chunks[j] < MIN_CONTENT_LEN

\* C7: for content whose stripped length is below 50 the store call returns
\* failure without any existence probe, embedding request or insert, it is made
\* exactly once, and a Source all of whose chunks are that short is marked
\* failed.
C7_ShortContentRejected ==
    [][ /\ ShortCall' =>
             /\ call'.result = "false"
             /\ call'.probes = 0 /\ call'.embeds = 0 /\ call'.inserts = 0
             /\ climate_memories'[call'.key] = call'.before
             /\ storeCalls'[call'.key] = 1
        /\ (AllChunksShort /\ pc' \notin {"store", "b_store"}) =>
             /\ outcome'[page.url] = "failed"
             /\ ingester = "unified" => /\ failed_count' = failed_count + 1
                                        /\ success_count' = success_count
             /\ ingester = "climate" => company'.success_count = company.success_count
      ]_vars

\* The only chunk of a crawled page was too short and its store call has returned.
C7_Witness ==
    /\ ingester = "unified"
    /\ AllChunksShort
    /\ ShortCall
    /\ call.result = "false"

\* The probe of the store call in progress failed in transport or status.
ProbeFailed == call.probes > 0 /\ call.probe \in {"non200", "exception"}

\* C8: when the existence probe fails, memory_exists reports "does not exist"
\* and the enclosing store_memory call goes on to attempt the insert.
C8_ProbeFailsOpen ==
    ProbeFailed =>
        /\ call.reported = "absent"
        /\ \/ call.result = "none" /\ pc \in {"embed", "insert"}
           \/ call.result # "none" /\ call.inserts = 1

\* A probe raised, and the insert that followed created the row.
C8_Witness ==
    /\ call.probe = "exception"
    /\ call.inserts = 1
    /\ call.result = "true"
    /\ climate_memories[call.key] = call.before + 1

\* C9: every insert request is preceded, within the same store_memory call, by
\* an existence probe for the same key that reported the key absent.
C9_ProbeBeforeInsert ==
    (pc = "insert" \/ call.inserts > 0) =>
        /\ call.probes = 1
        /\ call.probeKey = call.key
        /\ call.reported = "absent"
        /\ call.inserts <= 1

\* A probe answered 200 with no rows, and the insert was then issued.
C9_Witness ==
    /\ call.probe = "ok"
    /\ call.reported = "absent"
    /\ call.inserts = 1

\* C10: when the probe reports the key as already stored, store_memory returns
\* success, issues no embedding request and no insert, leaves the table
\* unchanged, and the chunk counts toward the Source's success count.
C10_ExistingKeyIsNoOpSuccess ==
    call.reported = "present" =>
        /\ call.result = "true"
        /\ call.embeds = 0
        /\ call.inserts = 0
        /\ climate_memories[call.key] = call.before
        /\ climate_memories[call.key] > 0
        /\ page.success_count = call.sc + 1
        /\ pc = "store"

\* In a second run the probe found the row the first run had stored.
C10_Witness ==
    /\ run = 2
    /\ call.reported = "present"
    /\ call.result = "true"
    /\ page.i = call.key[2] + 1

\* The resource class of an external request of a store call.
ResourceClass(request) ==
    IF request = "embedding" THEN "embedding" ELSE "storage"

\* Request j of the trace is gated: a wait completed before it and after the
\* previous request of its resource class.
Gated(trace, j) ==
    \E w \in 1..(j - 1) :
        /\ trace[w] = "wait"
        /\ \A m \in (w + 1)..(j - 1) :
              trace[m] = "wait" \/ ResourceClass(trace[m]) # ResourceClass(trace[j])

\* C14: every external request of a store call (existence probe, embedding
\* request, insert) is preceded by a completed RateLimiter wait since the
\* previous request of its resource class; the probe and the insert of one
\* store call are never issued without a wait between them.
C14_EveryRequestGated ==
    \A j \in 1..Len(call.trace) : call.trace[j] # "wait" => Gated(call.trace, j)

\* The hosts of the seed URLs of the crawl in progress.
SeedHosts == {netloc(stack[1].called_with[i]) : i \in 1..Len(stack[1].called_with)}

\* C15: a link is kept for the next tier only when it has the host of the page
\* it was found on, so every URL a crawl visits, at any tier, shares its host
\* with one of the seed URLs of the run.
C15_SameHostAsSeeds ==
    /\ \A h \in page.additional_urls : netloc(h) = netloc(page.url)
    /\ stack # <<>> =>
          /\ \A u \in processed_urls : netloc(u) \in SeedHosts
          /\ \A i \in 1..Len(stack) : \A j \in 1..Len(stack[i].called_with) :
                netloc(stack[i].called_with[j]) \in SeedHosts

\* The seed page linked to another host as well as to its own; the next tier
\* has been processed and the foreign URL was never visited.
C15_Witness ==
    /\ pc = "return"
    /\ Len(stack) = 2
    /\ "a/1" \in stack[1].additional_urls
    /\ stack[2].called_with # <<>>
    /\ "b/1" \notin processed_urls

\* C16: the links found during tier N are released only when tier N's list is
\* fully drained: while a list of tier N+1 exists, the list of tier N has no
\* URL left, the tier N+1 list holds only links gathered by tier N, and the
\* page being fetched or stored belongs to the innermost list.
C16_TierDrainedBeforeNext ==
    /\ \A i \in 1..(Len(stack) - 1) :
          /\ stack[i].urls = <<>>
          /\ stack[i + 1].tier = stack[i].tier + 1
          /\ \A j \in 1..Len(stack[i + 1].called_with) :
                stack[i + 1].called_with[j] \in stack[i].additional_urls
    /\ page # NoPage => page.tier = Top.tier

\* Both seed URLs of tier 1 have been fetched and a page of tier 2 is about to be.
C16_Witness ==
    /\ pc = "fetch"
    /\ Len(stack) = 2
    /\ page.tier = stack[1].tier + 1
    /\ Len(stack[1].called_with) = 2
    /\ \A j \in 1..2 : fetchCount[stack[1].called_with[j]] = 1
    /\ stack[1].called_with[1] # stack[1].called_with[2]

\* A step in which process_webpage fails for the URL at hand: the fetch or the
\* extraction raised, or the chunk loop ended with no chunk stored.
PageFails ==
    \/ pc = "fetch" /\ pc' # "store"
    \/ /\ pc = "store" /\ pc' # "store"
       /\ page.i = Len(page.chunks)
       /\ page.success_count = 0

\* C17: when process_webpage fails for a URL, at whatever stage, the URL is
\* marked failed and process_url_list goes on with the rest of its list; it
\* returns only when the list is used up, every URL of it attempted.
C17_FailureIsolated ==
    [][ /\ PageFails =>
             /\ outcome'[page.url] = "failed"
             /\ failed_count' = failed_count + 1
             /\ success_count' = success_count
             /\ pc' = "list"
             /\ stack' = stack
        /\ (pc' = "return" /\ stack' # <<>>) =>
             /\ Top'.urls = <<>>
             /\ \A j \in 1..Len(Top'.called_with) :
                   outcome'[Top'.called_with[j]] # "none"
      ]_vars

\* The first seed URL failed, the second was attempted all the same, and
\* process_url_list returns.
C17_Witness ==
    /\ pc = "return"
    /\ Len(stack) = 1
    /\ stack[1].called_with = <<"a/2", "a/1">>
    /\ outcome["a/2"] = "failed"
    /\ outcome["a/1"] = "success"
    /\ failed_count = 1

\* C18: for any seed list and any link graph, cycles and self-links included,
\* a crawl that has been started eventually ends: process_url_list returns to
\* main, the frontier being empty or the maximum tier processed.
C18_CrawlTerminates == (stack # <<>>) ~> (stack = <<>> /\ pc = "idle")

\* A crawl over pages that link to each other and to themselves has ended
\* after visiting all three pages of the host, the last at the maximum tier.
C18_Witness ==
    /\ pc = "idle"
    /\ run = 1
    /\ stack = <<>>
    /\ processed_urls = {"a/1", "a/2", "a/3"}
    /\ MAX_TIER \in fetchTiers

\* The resources of the catalog entry at hand.
EntryUrls ==
    LET r == company.catalog[company.next - 1].resources
    IN  {r[j] : j \in 1..Len(r)}

\* The entry at hand gets its flag in this step, in memory or in the checkpoint.
GetsMarked ==
    \/ company.name \notin indexed /\ company.name \in indexed'
    \/ company.name \notin checkpoint /\ company.name \in checkpoint'

\* C19: a catalog entry is marked indexed, and the checkpoint saved with the
\* flag, only if in this run a resource of it had a chunk stored; an entry
\* whose resources all failed or were skipped, or that has none, is left
\* unmarked when process_company returns.
C19_MarkedOnlyAfterSuccess ==
    [][ /\ GetsMarked =>
             /\ company.success_count > 0
             /\ \E u \in EntryUrls : outcome[u] = "success"
             /\ \E k \in Keys : climate_memories[k] > snapshot[k]
        /\ (pc \in {"company", "company_end"}
               /\ pc' \in {"companies", "company_save"}
               /\ \A u \in EntryUrls : outcome[u] # "success") =>
             /\ indexed' = indexed
             /\ checkpoint' = checkpoint
      ]_vars

\* The first resource of the entry failed, the second had a chunk stored, and
\* the entry, not flagged before, is flagged in the saved checkpoint.
C19_Witness ==
    /\ pc = "companies"
    /\ company.name = "ACT"
    /\ ~company.was_indexed
    /\ outcome["a/2"] = "failed"
    /\ outcome["a/1"] = "success"
    /\ "ACT" \in checkpoint

\* The loop of process_all_companies has just moved on to the next entry.
EntryTaken == pc = "companies" /\ company'.next = company.next + 1

\* C20: without force an entry already flagged indexed is passed over and no
\* resource of it is fetched; with force the entry is processed although
\* flagged, and when a resource of it succeeds the flag is set and the
\* checkpoint written as for any other entry.
C20_ForceBypassesSkipOnly ==
    [][ /\ (EntryTaken /\ company'.was_indexed /\ ~company.force) =>
             /\ pc' = "companies"
             /\ fetchCount' = fetchCount
        /\ (pc = "b_fetch" /\ ~company.force) => ~company.was_indexed
        /\ (EntryTaken /\ company.force /\ company'.resources # <<>>) =>
             pc' = "company"
        /\ (pc \in {"company", "company_end"}
               /\ pc' \in {"companies", "company_save"}
               /\ company.force /\ company.success_count > 0) =>
             /\ company.name \in indexed'
             /\ pc' = "company_save"
        /\ (pc = "company_save" /\ pc' = "companies") =>
             /\ company.name \in checkpoint'
             /\ checkpoint' = indexed'
      ]_vars

\* A forced run over an entry that was already flagged has fetched a resource,
\* stored a chunk of it, and returned with the flag in the saved checkpoint.
C20_Witness ==
    /\ pc = "companies"
    /\ company.name = "ACT"
    /\ company.force
    /\ company.was_indexed
    /\ company.success_count > 0
    /\ \E u \in Urls : fetchCount[u] = 1 /\ outcome[u] = "success"
    /\ "ACT" \in checkpoint

\* C21: once should_exit is set it stays set for the rest of the run, and no
\* resource, no catalog entry and no report is started any more: only the
\* resource that was in flight when the signal arrived goes on.
C21_NothingStartedAfterShutdown ==
    [][ (should_exit /\ run' = run) =>
             /\ should_exit'
             /\ page = NoPage => page' = NoPage
             /\ page # NoPage => page'.url \in {page.url, NoPage.url}
             /\ company'.next = company.next
             /\ Len(company'.resources) = Len(company.resources)
             /\ pc # "all_reports" => company'.reports = company.reports
             /\ pc = "all_reports" => pc' \in {"exit", "reports"}
             /\ \A u \in Sources \ {page.url} : fetchCount'[u] = fetchCount[u]
      ]_vars

\* The signal arrived while the first resource of the first entry was in
\* flight; the run has ended with the second resource and the second entry
\* never started.
C21_Witness ==
    /\ pc = "idle"
    /\ should_exit
    /\ company.name = "ACT"
    /\ company.next = 2
    /\ company.resources = <<"a/1">>
    /\ outcome["a/2"] = "success"
    /\ fetchCount["a/1"] = 0

\* C22: the resource in flight when the shutdown signal arrives is finished:
\* when the processing of a web page or a report ends, every one of its
\* chunks has had its store call, shutdown signal or not.
C22_InFlightResourceFinished ==
    [][ (ingester = "climate" /\ pc = "b_store" /\ pc' # "b_store"
           /\ page # NoPage /\ page' = NoPage)
        => page.i = Len(page.chunks) ]_vars

\* C23: when a run of the batch entry point has ended, by normal completion,
\* by an exception caught in main or after a shutdown signal, the checkpoint
\* file equals the in-memory index status; and a signal writes the status as
\* it is at that moment.
C23_CheckpointCurrentAtExit ==
    /\ (ingester = "climate" /\ pc = "idle") => checkpoint = indexed
    /\ (should_exit /\ checkpoint # indexed) => pc = "company_save"

\* A run interrupted by a signal has ended with an entry flagged in this run
\* in the checkpoint.
C23_Witness ==
    /\ pc = "idle"
    /\ run = 1
    /\ should_exit
    /\ indexed = {"ACT"}
    /\ checkpoint = {"ACT"}

\* A run ended by the exception of process_all_reports after its entries were
\* processed, with an entry flagged in this run in the checkpoint.
C23_WitnessException ==
    /\ pc = "idle"
    /\ run = 1
    /\ ~should_exit
    /\ company.catalog # <<>>
    /\ company.next > Len(company.catalog)
    /\ company.reports = <<>>
    /\ checkpoint = {"ACT", "MassCEC"}

\* C24: an entry is flagged indexed, in memory or in the checkpoint, only when
\* the loop of process_company has gone through every resource of it; an
\* entry whose loop was left on a shutdown signal with resources not yet
\* attempted is not flagged.
C24_FlaggedOnlyWhenAllAttempted ==
    [][ GetsMarked => company.resources = <<>> ]_vars

\* C25: get_embedding reports failure only after three attempts at the
\* embedding service: a call that made fewer attempts has come back with a
\* vector.
C25_EmbeddingRetried ==
    (call # NoCall /\ pc \notin {"embed", "b_embed"} /\ call.embeds >= 1
        /\ ~call.embedding)
    => call.embeds = STOP_AFTER_ATTEMPT

\* C26: a store_document call whose insert was answered with a 5xx or network
\* error returns only after three insert attempts, and one whose insert was
\* rejected with a 4xx has made exactly one.
C26_InsertRetried ==
    (ingester = "climate" /\ call # NoCall /\ call.result = "false") =>
        /\ call.answer \in {"error", "timeout"} =>
               call.inserts = STOP_AFTER_ATTEMPT
        /\ call.answer = "rejected" => call.inserts = 1

\* A store call of the chunk loop is in progress.
InStoreCall == pc \in {"probe", "embed", "insert", "b_embed", "b_insert"}

\* The chunks of the web page at hand that have had their store call: those
\* before the position of the loop, and the one at it while its call runs.
CalledChunks ==
    {j \in ChunkIdx : j < page.i \/ (j = page.i /\ InStoreCall)}

\* C27: the chunks of a web page get their store calls one by one in index
\* order, each exactly once, and the page is left only when every chunk has
\* had its call, whatever the calls of the other chunks returned.
C27_EachChunkStoredOnceInOrder ==
    [][ /\ (page' # NoPage /\ page'.url \in Urls) =>
             \A j \in ChunkIdx :
                storeCalls'[<<page'.url, j>>] =
                    IF j \in CalledChunks' THEN 1 ELSE 0
        /\ (page # NoPage /\ page.url \in Urls /\ page' = NoPage
               /\ pc \in {"store", "b_store"}) =>
             \A j \in 0..(Len(page.chunks) - 1) :
                storeCalls[<<page.url, j>>] = 1
      ]_vars

\* The store call of the first chunk of a page returned failure after its
\* embedding request, and the second chunk is at its insert.
C27_Witness ==
    /\ ingester = "climate"
    /\ pc = "b_insert"
    /\ page.i = 1
    /\ page.success_count = 0
    /\ storeCalls[<<page.url, 0>>] = 1
    /\ storeCalls[<<page.url, 1>>] = 1

\* The chunk loop of the Source at hand is left in this step.
SourceDone == page # NoPage /\ page' = NoPage /\ pc \in {"store", "b_store"}

\* C28: a store call that returns success adds one to the count of the Source
\* and one that returns failure adds nothing; the Source is reported
\* successful exactly when that count is above zero, so with some but not all
\* chunks stored it is a success and with none a failure.
C28_SuccessIffAChunkStored ==
    [][ /\ (page # NoPage /\ call'.result # "none"
              /\ (call.result = "none" \/ call = NoCall \/ call'.key # call.key)) =>
             page'.success_count =
                 page.success_count + (IF call'.result = "true" THEN 1 ELSE 0)
        /\ SourceDone =>
             /\ outcome'[page.url] = "success" <=> page.success_count > 0
             /\ outcome'[page.url] = "failed" <=> page.success_count = 0
             /\ ingester = "unified" =>
                   /\ success_count' = success_count
                                          + (IF page.success_count > 0 THEN 1 ELSE 0)
                   /\ failed_count' = failed_count
                                          + (IF page.success_count > 0 THEN 0 ELSE 1)
      ]_vars

\* A crawled page of two chunks of which the first was stored and the second
\* was not is reported successful.
C28_Witness ==
    /\ ingester = "unified"
    /\ run = 1
    /\ \E u \in Urls :
          /\ outcome[u] = "success"
          /\ storeCalls[<<u, 0>>] = 1 /\ storeCalls[<<u, 1>>] = 1
          /\ climate_memories[<<u, 0>>] = 1
          /\ climate_memories[<<u, 1>>] = 0

\* C29: in a crawl every visited URL is given its outcome, success or failure,
\* once and for the rest of the run, and is counted in exactly one of the two
\* counters: success_count + failed_count is the number of visited URLs
\* whenever no page is in flight (one less while one is), and the success rate
\* of the summary is at most 100.
C29_CrawlAccounting ==
    [][ ingester' = "unified" =>
          /\ success_count' + failed_count' =
                 Cardinality(processed_urls') - (IF page' = NoPage THEN 0 ELSE 1)
          /\ success_count' = Cardinality({u \in Urls : outcome'[u] = "success"})
          /\ failed_count' = Cardinality({u \in Urls : outcome'[u] = "failed"})
          /\ success_rate' <= 100
          /\ run' = run =>
                \A u \in Urls : outcome[u] # "none" => outcome'[u] = outcome[u]
      ]_vars

\* A crawl has ended with three URLs visited, two of them successes and one a
\* failure.
C29_Witness ==
    /\ ingester = "unified"
    /\ pc = "idle"
    /\ run = 1
    /\ Cardinality(processed_urls) = 3
    /\ success_count = 2
    /\ failed_count = 1
    /\ success_rate = 66

\* C30: a script started with SUPABASE_URL or the key it connects with not set
\* does nothing but exit with status 1: its only step is the exit, which
\* issues no fetch, no embedding request, no store call and no checkpoint
\* write, and no ingester is ever constructed.
C30_MissingConfigIsFatal ==
    [][ (\E v \in Required(ingester) : ~environ[v]) =>
           /\ pc = "idle" /\ pc' = "exited"
           /\ run' = 0
           /\ UNCHANGED <<climate_memories, fetchCount, storeCalls, call, page,
                          indexed, checkpoint, processed_urls>>
      ]_vars

\* The crawl script was started without SUPABASE_SERVICE_KEY and has exited.
C30_Witness ==
    /\ ingester = "unified"
    /\ ~environ["SUPABASE_SERVICE_KEY"]
    /\ pc = "exited"
    /\ run = 0

\* The batch script was started without SUPABASE_URL and has exited.
C30_WitnessBatch ==
    /\ ingester = "climate"
    /\ ~environ["SUPABASE_URL"]
    /\ pc = "exited"
    /\ checkpoint = {}

\* C31: store_document issues its insert only with an embedding vector in
\* hand; a call whose get_embedding yielded none returns failure, has issued
\* no insert and leaves the table as it was.
C31_NoInsertWithoutEmbedding ==
    ingester = "climate" =>
        /\ (pc = "b_insert" \/ call.inserts > 0) =>
               /\ call.embeds >= 1
               /\ call.embedding
        /\ (call.embeds >= 1 /\ ~call.embedding /\ pc # "b_embed") =>
               /\ call.result = "false"
               /\ call.inserts = 0
               /\ climate_memories[call.key] = call.before

\* The embedding request of the second chunk of a page yielded no vector and
\* the call has returned failure, the first chunk being stored.
C31_Witness ==
    /\ ingester = "climate"
    /\ pc = "b_store"
    /\ call.key[2] = 1
    /\ call.embeds = 1
    /\ ~call.embedding
    /\ call.result = "false"
    /\ page.success_count = 1

\* C32: when process_webpage of the batch ingester returns for a URL, the URL
\* is in processed_urls whatever the outcome, and no URL is fetched a second
\* time in the same run.
C32_AttemptedUrlIsProcessed ==
    [][ /\ (ingester = "climate" /\ page # NoPage /\ page.url \in Urls
               /\ page' = NoPage) =>
             page.url \in processed_urls'
        /\ ingester = "climate" => \A u \in Urls : fetchCount'[u] <= 1
      ]_vars

\* C33: with several process_url_list tasks on one UnifiedURLIngester and
\* overlapping lists, a URL is requested by at most one task: no URL is
\* fetched twice, no two tasks hold the same URL, and a URL a task holds is
\* already in processed_urls.
C33_OneFetcherPerUrl ==
    (ingester = "unified" /\ tasks # <<>>) =>
        /\ \A u \in Urls : fetchCount[u] <= 1
        /\ \A t1, t2 \in Tasks :
              (t1 # t2 /\ tasks[t1].pc = "fetch" /\ tasks[t2].pc = "fetch")
              => tasks[t1].url # tasks[t2].url
        /\ \A t1, t2 \in Tasks :
              t1 # t2 => tasks[t1].fetched \cap tasks[t2].fetched = {}
        /\ \A t \in Tasks :
              tasks[t].pc \in {"fetch", "sleep"} => tasks[t].url \in processed_urls

\* Two tasks given the same two URLs in opposite orders have returned, each
\* having fetched the URL it reached first.
C33_Witness ==
    /\ ingester = "unified"
    /\ tasks # <<>>
    /\ tasks[1].given = <<"a/1", "a/2">>
    /\ tasks[2].given = <<"a/2", "a/1">>
    /\ tasks[1].pc = "done" /\ tasks[2].pc = "done"
    /\ tasks[1].fetched = {"a/1"}
    /\ tasks[2].fetched = {"a/2"}

\* C34: with several process_webpage tasks on one ClimateDataIngester, a URL
\* is fetched by at most one of them and each chunk of it is stored at most
\* once.
C34_OneWorkerPerUrl ==
    (ingester = "climate" /\ tasks # <<>>) =>
        /\ \A u \in Urls : fetchCount[u] <= 1
        /\ \A k \in Keys : storeCalls[k] <= 1 /\ climate_memories[k] <= 1

\* The texts of the element's descendants whose tag is none of heading,
\* paragraph, list, container and anchor.
UnrecognizedTexts ==
    LET unrecognized == {"span", "blockquote", "table"}
    IN  {<<i>> : i \in {j \in 1..Len(element) :
                           element[j].name \in unrecognized}}
        \cup {l \in {<<i, j>> : i \in 1..MaxChildren, j \in 1..MaxNested} :
                 /\ l[1] <= Len(element)
                 /\ l[2] <= Len(element[l[1]].kids)
                 /\ element[l[1]].kids[l[2]].name \in unrecognized}

\* C35: the text of every child whose tag is none of the recognized kinds is
\* in the output of extract_structured_content, whatever its siblings are.
C35_UnrecognizedTextKept ==
    epc = "done" =>
        \A l \in UnrecognizedTexts :
            \E k \in 1..Len(extracted) : extracted[k] = l

\* The metadata of the store calls of the processing at hand: of the calls that
\* returned and of the call in progress.
SourceMetadata ==
    {page.stored[j] : j \in 1..Len(page.stored)}
    \cup (IF InStoreCall THEN {call.metadata} ELSE {})

\* C36: every store call of one processing of a source is given
\* 0 <= chunk_index < total_chunks <= the chunk cap, total_chunks is the
\* length of the capped chunk list in all of them, and no two calls of the
\* processing are given the same chunk_index.
C36_MetadataConsistent ==
    /\ \A m \in SourceMetadata :
          /\ 0 <= m.chunk_index
          /\ m.chunk_index < m.total_chunks
          /\ m.total_chunks <= MaxPageChunks
          /\ m.total_chunks = Len(page.chunks)
    /\ \A j, k \in 1..Len(page.stored) :
          j # k => page.stored[j].chunk_index # page.stored[k].chunk_index
    /\ InStoreCall =>
          \A j \in 1..Len(page.stored) :
              page.stored[j].chunk_index # call.metadata.chunk_index

\* A second store call of a processing is in progress after the first returned.
C36_Witness ==
    /\ InStoreCall
    /\ Len(page.stored) = 1
    /\ call.metadata = [chunk_index |-> 1, total_chunks |-> 2]

\* C39: the crawl follows successful pages only. A set additional_urls of
\* process_url_list grows only at the return of a page of its own tier that
\* stored at least one chunk, and by the links of that page; the list of the
\* next tier is taken from that set; a page processed below the seed tier is
\* one of the set of the tier above. The links of a failed page never reach
\* the set.
C39_OnlySuccessfulPagesFollowed ==
    [][/\ (/\ stack # <<>>
           /\ Len(stack') = Len(stack)
           /\ stack'[Len(stack')].additional_urls # Top.additional_urls) =>
              /\ page # NoPage
              /\ page.tier = Top.tier
              /\ page.success_count > 0
              /\ outcome'[page.url] = "success"
              /\ stack'[Len(stack')].additional_urls =
                     Top.additional_urls \cup page.additional_urls
       /\ (page # NoPage /\ page' = NoPage /\ page.success_count = 0) =>
              stack' = stack
       /\ (stack # <<>> /\ Len(stack') = Len(stack) + 1) =>
              LET new == stack'[Len(stack')]
              IN  /\ new.tier = Top.tier + 1
                  /\ new.additional_urls = {}
                  /\ \A k \in 1..Len(new.urls) : new.urls[k] \in Top.additional_urls
                  /\ \A k \in 1..Len(stack) : stack'[k] = stack[k]
       /\ (page = NoPage /\ page' # NoPage /\ Len(stack) > 1) =>
              /\ page'.tier = stack[Len(stack) - 1].tier + 1
              /\ page'.url \in stack[Len(stack) - 1].additional_urls
      ]_vars

\* A page of the next tier is being processed in a run in which a page of the
\* tier above failed after its links were collected.
C39_Witness ==
    /\ ingester = "unified"
    /\ Len(stack) = 2
    /\ page # NoPage
    /\ page.url \in stack[1].additional_urls
    /\ \E u \in Urls : outcome[u] = "failed" /\ u # page.url

(***************************************************************************)
(* Properties of the RateLimiter                                           *)
(***************************************************************************)

\* C4: for any number of callers of wait() on one RateLimiter, in any
\* interleaving, callers pass the gate one at a time and any two successive
\* releases are at least min_interval apart.
C4_ReleasesSpaced ==
    /\ Cardinality({c \in Callers : rpc[c] \in {"locked", "sleeping"}}) <= 1
    /\ \A i \in 1..(Len(releases) - 1) :
          releases[i + 1] - releases[i] >= MinInterval

\* Three callers have been released, the second exactly one interval after the
\* first: it arrived while the gate was closed and was held back.
C4_Witness ==
    /\ Len(releases) >= 3
    /\ releases[2] = releases[1] + MinInterval
    /\ \A c \in {1, 2, 3} : rpc[c] = "done"

(***************************************************************************)
(* Properties of the chunker                                               *)
(***************************************************************************)

\* The chunk list before the limit is applied, for the call at hand.
RawChunks ==
    IF chunker = "unified"
    THEN UncappedChunks(text, ChunkSize, ChunkOverlap, MaxContentSize)
    ELSE lib_chunks

\* C3: smart_chunker returns at most max_chunk_count chunks; when more are
\* produced the kept chunks are the first max_chunk_count in original order.
C3_ChunkCountBound ==
    cpc = "done" =>
        /\ Len(out_chunks) <= MaxChunks
        /\ Len(out_chunks) = Min(Len(RawChunks), MaxChunks)
        /\ \A i \in 1..Len(out_chunks) : out_chunks[i] = RawChunks[i]

\* The crawl chunker produced more chunks than the limit and returned the limit.
C3_Witness ==
    /\ cpc = "done"
    /\ chunker = "unified"
    /\ Len(RawChunks) > MaxChunks
    /\ Len(out_chunks) = MaxChunks

\* The texts that agree with t on their first n characters.
SamePrefix(t, n) ==
    {SubSeq(t, 1, n) \o rest : rest \in Texts(MaxTextLen - n)}

\* C11: for a text longer than max_content_length nothing past that offset
\* reaches a chunk: the crawl chunker returns what it returns for the first
\* max_content_length characters alone, whatever follows them, and the batch
\* chunker hands exactly those characters to the text splitter.
C11_NothingPastContentLimit ==
    (cpc = "done" /\ Len(text) > MaxContentSize) =>
        /\ chunker = "unified" =>
              \A u \in SamePrefix(text, MaxContentSize) :
                  out_chunks = smart_chunker(u, ChunkSize, ChunkOverlap,
                                             MaxContentSize, MaxChunks)
        /\ chunker = "climate" =>
              /\ split_input = SubSeq(text, 1, MaxContentSize)
              /\ Len(split_input) = MaxContentSize

\* The crawl chunker was given a text one sentence end longer than the limit
\* and returned the chunk of the text without it.
C11_Witness ==
    /\ cpc = "done"
    /\ chunker = "unified"
    /\ Len(text) > MaxContentSize
    /\ text[Len(text)] = "."
    /\ out_chunks # <<>>
    /\ \A i \in 1..Len(out_chunks) : "." \notin {out_chunks[i][j] : j \in 1..Len(out_chunks[i])}

\* The last k characters of chunk a are the first k characters of chunk b.
Overlaps(a, b, k) ==
    /\ k <= Len(a)
    /\ k <= Len(b)
    /\ SubSeq(a, Len(a) - k + 1, Len(a)) = SubSeq(b, 1, k)

\* C12: for every pair of adjacent chunks the crawl chunker returns, a
\* non-empty suffix of the first, of at most chunk_overlap characters, is a
\* prefix of the second.
C12_AdjacentChunksOverlap ==
    (cpc = "done" /\ chunker = "unified") =>
        \A i \in 1..(Len(out_chunks) - 1) :
            \E k \in 1..ChunkOverlap : Overlaps(out_chunks[i], out_chunks[i + 1], k)

\* Two chunks were returned: the second begins with the sentence end that
\* closes the first and goes on with the next segment.
C12_Witness ==
    /\ cpc = "done"
    /\ chunker = "unified"
    /\ Len(out_chunks) = 2
    /\ Overlaps(out_chunks[1], out_chunks[2], 1)
    /\ Len(out_chunks[1]) > 1
    /\ Len(out_chunks[2]) > 1

\* C13: for every input text, the empty and the blank ones included, no chunk
\* the crawl chunker returns is the empty string.
C13_NoEmptyChunk ==
    (cpc = "done" /\ chunker = "unified") =>
        \A i \in 1..Len(out_chunks) : out_chunks[i] # <<>>

\* The segments of the text of the call at hand, after the size limit and the
\* clean-up, each with its separator.
TextSegments == Segments(Split(Normalise(text, MaxContentSize), 1, <<>>), 1)

\* The lists the chunks of the call at hand were joined from, before the limit.
ChunkParts ==
    Compose(TextSegments, 1, <<>>, [seed |-> <<>>, added |-> <<>>], FALSE,
            ChunkSize, ChunkOverlap)

\* Length of the longest segment.
LongestSegment ==
    CHOOSE n \in 0..MaxTextLen :
        /\ \A k \in 1..Len(TextSegments) : Len(TextSegments[k]) <= n
        /\ \E k \in 1..Len(TextSegments) : Len(TextSegments[k]) = n

\* C37: every chunk UnifiedURLIngester.smart_chunker returns is at most
\* max(chunk_size, chunk_overlap + L) long, L the length of the longest
\* segment of the normalised input, and a chunk longer than chunk_size is the
\* overlap seed, if any, followed by exactly one segment.
C37_ChunkLengthBound ==
    (cpc = "done" /\ chunker = "unified") =>
        /\ Len(out_chunks) = Min(Len(ChunkParts), MaxChunks)
        /\ \A i \in 1..Len(out_chunks) :
              /\ out_chunks[i] = Strip(Joined(ChunkParts[i]))
              /\ Len(out_chunks[i]) <= Max(ChunkSize, ChunkOverlap + LongestSegment)
              /\ Len(out_chunks[i]) > ChunkSize =>
                    /\ Len(ChunkParts[i].added) = 1
                    /\ Len(ChunkParts[i].seed) <= ChunkOverlap

\* A returned chunk is longer than chunk_size: a seed and one segment.
C37_Witness ==
    /\ cpc = "done"
    /\ chunker = "unified"
    /\ \E i \in 1..Len(out_chunks) :
          /\ Len(out_chunks[i]) > ChunkSize
          /\ ChunkParts[i].seed # <<>>

\* s occurs in c.
Contains(c, s) ==
    \E j \in 0..(Len(c) - Len(s)) : SubSeq(c, j + 1, j + Len(s)) = s

\* The segments appended to the chunks of the call at hand, chunk after chunk.
AddedSegments == Join([i \in 1..Len(ChunkParts) |-> ChunkParts[i].added])

\* C38: when UnifiedURLIngester.smart_chunker does not hit the chunk cap,
\* every segment of the truncated, normalised text is appended to exactly one
\* chunk (behind the seed of that chunk), the segments follow one another
\* through the chunk list in their original order and together they are the
\* whole text; a segment is in its chunk up to the blanks strip() takes from
\* the two ends of the chunk.
C38_ChunkerCoverage ==
    (cpc = "done" /\ chunker = "unified" /\ Len(ChunkParts) <= MaxChunks) =>
        /\ Len(out_chunks) = Len(ChunkParts)
        /\ AddedSegments = TextSegments
        /\ Join(AddedSegments) = Normalise(text, MaxContentSize)
        /\ \A i \in 1..Len(out_chunks) :
              /\ out_chunks[i] = Strip(Joined(ChunkParts[i]))
              /\ \A k \in 1..Len(ChunkParts[i].added) :
                    Contains(out_chunks[i], Strip(ChunkParts[i].added[k]))

\* Two segments went to two chunks, the second behind a seed, and the cap was
\* not hit.
C38_Witness ==
    /\ cpc = "done"
    /\ chunker = "unified"
    /\ Len(ChunkParts) = 2
    /\ Len(out_chunks) = 2
    /\ Len(TextSegments) = 2
    /\ ChunkParts[2].seed # <<>>
    /\ ChunkParts[2].added = <<TextSegments[2]>>

====
